---- MODULE Spec2Model ----
(***************************************************************************)
(* osm2arango: the streaming import orchestrator (src/domain/import.ts)    *)
(* with its document chunker (src/util/document-chunker.ts), its line      *)
(* reader (src/util/lines.ts) and the importDocuments of its ArangoDB      *)
(* client.  Four specifications share the variables: Spec (the             *)
(* orchestrator), ChunkerSpec, LinesSpec and ClientSpec; each leaves the   *)
(* variables of the others at rest.                                        *)
(*                                                                         *)
(* importOsm is one async function.  Every action of the orchestrator      *)
(* below is one synchronous run of it between two await points; the        *)
(* uploads it dispatched settle on their own, interleaved with it:         *)
(*   UploadResolve / UploadReject  the promise p of line 163 settles (the  *)
(*                                 .then callback of 165-173 included);    *)
(*   FinallyDelete                 the .finally callback of line 176.      *)
(* p.finally is registered on p before any Promise.race / Promise.all      *)
(* reaction, so the orchestrator is resumed by an upload only after that   *)
(* upload was deleted from inFlight.                                       *)
(*                                                                         *)
(* Between two lines the orchestrator waits for input, for as long as the  *)
(* stream takes.  After `await enqueueChunk(final)` (line 352) it waits    *)
(* for one microtask tick only: in that tick every upload can run at most  *)
(* one of its callbacks (ticked records which did).                        *)
(***************************************************************************)
EXTENDS Integers, Sequences, FiniteSets, TLC

\* ---- bounds of the model ------------------------------------------------
MaxLines == 2
MaxClock == 2
MaxConcurrency == 2
MaxLineLen == 2
MaxPushes == 3
MaxEstimate == 4

\* ---- input domains --------------------------------------------------------
GeometryTypes == {"Point", "GeometryCollection"}
TagSets == {{}, {"amenity"}}
Profiles == {"amenities"}
ChunkBytesSet == {4}
IntervalSet == {1}
ExitCodes == {0, 1, 137}
MaxBytesSet == {2, 4, 6}
JsonSizes == {2, 3}

\* The option sets a run is started with: the defaults of importOsm
\* (unsupportedGeometry ?? 'skip', invalidJson ?? 'error', no dry run) on an
\* NDJSON file, and every set that departs from them in one option.
DefaultOptions ==
  [unsupportedGeometry |-> "skip", invalidJson |-> "error", dryRun |-> FALSE,
   adapter |-> "ndjson"]

OptionSets ==
  { DefaultOptions,
    [DefaultOptions EXCEPT !.unsupportedGeometry = "keep"],
    [DefaultOptions EXCEPT !.unsupportedGeometry = "error"],
    [DefaultOptions EXCEPT !.invalidJson = "skip"],
    [DefaultOptions EXCEPT !.dryRun = TRUE],
    [DefaultOptions EXCEPT !.adapter = "osmium-geojsonseq"] }
Missing == -1

\* opts?.maxLineBytes when the option is not given (undefined)
NoLimit == -1

\* TransportResult values an upload may resolve with (a field may be absent).
TransportResults ==
  { [created |-> 1, updated |-> 0, ignored |-> 0, empty |-> 0, errors |-> 0],
    [created |-> Missing, updated |-> 1, ignored |-> 1, empty |-> Missing, errors |-> Missing],
    [created |-> 0, updated |-> 0, ignored |-> 0, empty |-> 1, errors |-> 1] }

NoResult == [created |-> Missing, updated |-> Missing, ignored |-> Missing,
             empty |-> Missing, errors |-> Missing]

VARIABLES
  opts, deps,
  pc, ret, failure, summary, dbClient, consumed, record,
  docs, bytes,
  uploads, inFlight, waitSet, firstSettled, firstRejected,
  seen, created, updated, ignored, empty, errors,
  skippedUnsupportedGeometry, skippedByProfile, skippedTooLongLines,
  skippedInvalidJsonLines, maxTooLongLineBytes, maxInvalidJsonLineBytes,
  geometryTypeCounts, unsupportedGeometryTypeCounts,
  clock, clockRead, lastProgressAt, sinkCount, sinkLast, sinkPhases,
  pushed, settleOrder, ticked, input,
  calls, returned, twin, lastFlush,
  readOpts, stream, delivered, parts, partsBytes, dropping, droppedBytes, out,
  rlState, chunking,
  conn, importCall, request, reply, settled

config == <<opts, deps>>
chunker == <<docs, bytes>>
chunkerLog == <<calls, returned, twin, lastFlush>>
lineReader ==
  <<readOpts, stream, delivered, parts, partsBytes, dropping, droppedBytes, out,
    rlState, chunking>>
arangoClient == <<conn, importCall, request, reply, settled>>
waitVars == <<waitSet, firstSettled, firstRejected>>
transportCounters == <<created, updated, ignored, empty, errors>>
readerCounters ==
  <<seen, skippedUnsupportedGeometry, skippedByProfile, skippedTooLongLines,
    skippedInvalidJsonLines, maxTooLongLineBytes, maxInvalidJsonLineBytes,
    geometryTypeCounts, unsupportedGeometryTypeCounts>>
progressVars == <<clock, clockRead, lastProgressAt, sinkCount, sinkLast, sinkPhases>>
vars ==
  <<opts, deps, pc, ret, failure, summary, dbClient, consumed, record,
    docs, bytes, uploads, inFlight, waitSet, firstSettled, firstRejected,
    seen, created, updated, ignored, empty, errors,
    skippedUnsupportedGeometry, skippedByProfile, skippedTooLongLines,
    skippedInvalidJsonLines, maxTooLongLineBytes, maxInvalidJsonLineBytes,
    geometryTypeCounts, unsupportedGeometryTypeCounts,
    clock, clockRead, lastProgressAt, sinkCount, sinkLast, sinkPhases, pushed,
    settleOrder, ticked, input, calls, returned, twin,
    lastFlush, readOpts, stream, delivered, parts, partsBytes, dropping,
    droppedBytes, out, rlState, chunking, conn, importCall,
    request, reply, settled>>

\* ---- helpers ----------------------------------------------------------------
\* the line reader and the ArangoDB client before any call of readLines or
\* importDocuments: the orchestrator and the chunker never touch them
NoReadOpts == [maxLineBytes |-> NoLimit, tooLongLine |-> "error",
               flushFinalPartialLine |-> TRUE]
ReaderIdle ==
  /\ readOpts = NoReadOpts
  /\ stream = <<>>
  /\ delivered = 0
  /\ parts = <<>>
  /\ partsBytes = 0
  /\ dropping = FALSE
  /\ droppedBytes = 0
  /\ out = <<>>
  /\ rlState = "not-called"
  /\ chunking = {}
ClientIdle ==
  /\ conn = "none"
  /\ importCall = "none"
  /\ request = [transport |-> "none"]
  /\ reply = [kind |-> "none"]
  /\ settled = "none"
Max(a, b) == IF a >= b THEN a ELSE b

MinOf(S) == CHOOSE x \in S : \A y \in S : x <= y

\* res.field ?? 0
Nz(x) == IF x = Missing THEN 0 ELSE x

FoldOverwrite(total, field) == Nz(field)

FoldSubtract(total, field) == total - Nz(field)

\* lines 166-170: total += res.field ?? 0
Fold(total, field) == total + Nz(field)

arangoSupportedGeoJsonGeometryTypes ==
  {"Point", "MultiPoint", "LineString", "MultiLineString", "Polygon", "MultiPolygon"}

isArangoSupportedGeoJsonGeometryType(type) ==
  type \in arangoSupportedGeoJsonGeometryTypes

\* A tag key in the set stands for that tag carrying a value the function
\* accepts (a non-empty leisure or waterway, a listed natural or landuse value,
\* a protected-area boundary).
isRecreationFeature(tags) ==
  tags \cap {"leisure", "waterway", "natural", "landuse", "boundary"} # {}

shouldImportFeatureForProfile(tags, profile) ==
  IF profile = "all" THEN TRUE
  ELSE IF profile = "amenities" THEN "amenity" \in tags
  ELSE IF profile = "recreation" THEN isRecreationFeature(tags)
  ELSE ("amenity" \in tags) \/ isRecreationFeature(tags)

\* ---- the document chunker ---------------------------------------------------
ChunkerClosesOpenOnly(openDocs, openBytes, docBytes, maxBytes) ==
  Len(openDocs) > 0 /\ openBytes > maxBytes

ChunkerClosesAtLimit(openDocs, openBytes, docBytes, maxBytes) ==
  Len(openDocs) > 0 /\ openBytes + docBytes >= maxBytes

ChunkerClosesUnlessOversize(openDocs, openBytes, docBytes, maxBytes) ==
  Len(openDocs) > 0 /\ openBytes + docBytes > maxBytes /\ docBytes <= maxBytes

\* push: TRUE when the open batch is closed and returned before doc is added.
ChunkerCloses(openDocs, openBytes, docBytes, maxBytes) ==
  Len(openDocs) > 0 /\ openBytes + docBytes > maxBytes

ChunkerDocsAfterPushLossy(openDocs, openBytes, doc, docBytes, maxBytes) ==
  IF ChunkerCloses(openDocs, openBytes, docBytes, maxBytes)
    THEN <<>>
    ELSE Append(openDocs, doc)

\* the open batch after push(doc, docBytes)
ChunkerDocsAfterPush(openDocs, openBytes, doc, docBytes, maxBytes) ==
  IF ChunkerCloses(openDocs, openBytes, docBytes, maxBytes)
    THEN <<doc>>
    ELSE Append(openDocs, doc)

ChunkerBytesAfterPush(openDocs, openBytes, docBytes, maxBytes) ==
  IF ChunkerCloses(openDocs, openBytes, docBytes, maxBytes)
    THEN docBytes
    ELSE openBytes + docBytes

\* flush (lines 14-21) hands out docs.slice(), a new array, and then empties
\* docs; a returned batch is recorded with what it refers to: "slice" for a
\* copy of its own, "docs" for the chunker's array itself.
FlushRefAlias == "docs"

FlushRef == "slice"

\* estimatedBytes as push receives it: not given, or a number that is finite
\* or not (NaN, Infinity)
NoEstimate == [given |-> FALSE, finite |-> FALSE, value |-> 0]

NonFinite == [given |-> TRUE, finite |-> FALSE, value |-> 0]

Estimate(v) == [given |-> TRUE, finite |-> TRUE, value |-> v]

Estimates == {NoEstimate, NonFinite} \cup {Estimate(v) : v \in 0..MaxEstimate}

\* Buffer.byteLength(JSON.stringify(doc), 'utf8') + 1; doc.json is the byte
\* length of the serialized document
ComputedBytes(doc) == doc.json + 1

DocBytesNoSeparator(doc, estimatedBytes) ==
  IF estimatedBytes.given /\ estimatedBytes.finite /\ estimatedBytes.value > 0
    THEN estimatedBytes.value
    ELSE doc.json

\* lines 26-28: docBytes of push(doc, estimatedBytes)
DocBytes(doc, estimatedBytes) ==
  IF estimatedBytes.given /\ estimatedBytes.finite /\ estimatedBytes.value > 0
    THEN estimatedBytes.value
    ELSE ComputedBytes(doc)

\* a chunker as createDocumentChunker returns it (lines 11-12), with the
\* batches it handed out so far
NewChunker == [docs |-> <<>>, bytes |-> 0, returned |-> <<>>]

\* a batch handed out by push or flush after the at-th push
Returned(batch, by, at) == [batch |-> batch, by |-> by, at |-> at, ref |-> FlushRef]

\* ---- progress ---------------------------------------------------------------
ThrottledIgnoringForce(force, t) == t - lastProgressAt < deps.progressIntervalMs

ThrottledOffByOne(force, t) ==
  ~force /\ t - lastProgressAt < deps.progressIntervalMs - 1

\* line 136: the throttle test of reportProgress
Throttled(force, t) == ~force /\ t - lastProgressAt < deps.progressIntervalMs

\* The snapshot handed to the sink.  Every caller updates its counters before
\* it reports and dispatches (inFlight.add) only after, so the snapshot reads
\* the new counters and the old inFlight.  force and t are not fields of
\* ImportProgress: they record how and when the snapshot was emitted.  The
\* sink (deps.onProgress) is observed through the last snapshot it received
\* (sinkLast), the number of snapshots it received (sinkCount) and the set of
\* phases it has seen (sinkPhases).
Snapshot(phase, force, t) ==
  [phase |-> phase, force |-> force, t |-> t,
   seen |-> seen', created |-> created', updated |-> updated',
   ignored |-> ignored', empty |-> empty', errors |-> errors',
   skippedUnsupportedGeometry |-> skippedUnsupportedGeometry',
   skippedByProfile |-> skippedByProfile',
   skippedTooLongLines |-> skippedTooLongLines',
   skippedInvalidJsonLines |-> skippedInvalidJsonLines',
   inFlight |-> Cardinality(inFlight)]

\* what the sink holds before the first snapshot
NoSnapshot ==
  [phase |-> "none", force |-> FALSE, t |-> 0,
   seen |-> 0, created |-> 0, updated |-> 0, ignored |-> 0, empty |-> 0, errors |-> 0,
   skippedUnsupportedGeometry |-> 0, skippedByProfile |-> 0, skippedTooLongLines |-> 0,
   skippedInvalidJsonLines |-> 0, inFlight |-> 0]

\* reportProgress(phase, force); now() is a monotonic clock, each read of it
\* returns a value not below the previous one.
reportProgress(phase, force) ==
  IF ~deps.onProgress
    THEN UNCHANGED progressVars
    ELSE \E t \in clock..MaxClock :
           /\ clock' = t
           /\ clockRead' = TRUE
           /\ IF Throttled(force, t)
                THEN UNCHANGED <<lastProgressAt, sinkCount, sinkLast, sinkPhases>>
                ELSE /\ lastProgressAt' = t
                     /\ sinkCount' = sinkCount + 1
                     /\ sinkLast' = Snapshot(phase, force, t)
                     /\ sinkPhases' = sinkPhases \cup {phase}

\* ---- bounded-concurrency dispatch -------------------------------------------
Settled(u) == uploads[u].status # "pending"

MustWaitOffByOne(set) == Cardinality(set) > opts.concurrency

MustWaitAlways(set) == TRUE

\* line 178: the loop condition of enqueueChunk
MustWait(set) == Cardinality(set) >= opts.concurrency

\* Promise.race(set): members that are already settled react first, in
\* insertion order; 0 when every member is still pending.
RaceFirst(set, ups) ==
  LET done == {u \in set : ups[u].status # "pending"}
  IN IF done = {} THEN 0 ELSE MinOf(done)

\* Promise.all(set): the first already rejected member, 0 when there is none.
AllFirstRejected(set, ups) ==
  LET rej == {u \in set : ups[u].status = "rejected"}
  IN IF rej = {} THEN 0 ELSE MinOf(rej)

enqueueChunkWithoutWait(chunk, next) ==
  IF opts.dryRun \/ ~dbClient
    THEN /\ pc' = next
         /\ UNCHANGED <<uploads, inFlight, ret, waitVars>>
    ELSE /\ uploads' = Append(uploads, [docs |-> chunk, status |-> "pending", res |-> NoResult])
         /\ inFlight' = inFlight \cup {Len(uploads) + 1}
         /\ pc' = next
         /\ UNCHANGED <<ret, waitVars>>

\* enqueueChunk(chunk), up to its first await; next is where the caller goes on
enqueueChunk(chunk, next) ==
  IF opts.dryRun \/ ~dbClient
    THEN /\ pc' = next
         /\ UNCHANGED <<uploads, inFlight, ret, waitVars>>
    ELSE /\ uploads' = Append(uploads, [docs |-> chunk, status |-> "pending", res |-> NoResult])
         /\ inFlight' = inFlight \cup {Len(uploads) + 1}
         /\ IF MustWait(inFlight')
              THEN /\ pc' = "race"
                   /\ ret' = next
                   /\ waitSet' = inFlight'
                   /\ firstSettled' = RaceFirst(inFlight', uploads')
                   /\ UNCHANGED firstRejected
              ELSE /\ pc' = next
                   /\ UNCHANGED <<ret, waitVars>>

Fail(why) ==
  /\ pc' = "failed"
  /\ failure' = why

\* ---- Init ---------------------------------------------------------------------
\* the state at the entry of importOsm, opts.concurrency drawn from limits
InitWith(limits) ==
  /\ \E o \in OptionSets, n \in limits, cb \in ChunkBytesSet, pr \in Profiles :
       opts = [concurrency |-> n,
               unsupportedGeometry |-> o.unsupportedGeometry,
               invalidJson |-> o.invalidJson,
               dryRun |-> o.dryRun,
               adapter |-> o.adapter,
               chunkBytes |-> cb,
               maxLineBytes |-> MaxLineLen,
               profile |-> pr]
  /\ deps \in [onProgress : BOOLEAN, progressIntervalMs : IntervalSet]
  /\ pc = "start"
  /\ ret = "reading"
  /\ failure = "none"
  /\ summary = <<>>
  /\ dbClient = FALSE
  /\ consumed = 0
  /\ record = 0
  /\ docs = <<>>
  /\ bytes = 0
  /\ uploads = <<>>
  /\ inFlight = {}
  /\ waitSet = {}
  /\ firstSettled = 0
  /\ firstRejected = 0
  /\ seen = 0
  /\ created = 0
  /\ updated = 0
  /\ ignored = 0
  /\ empty = 0
  /\ errors = 0
  /\ skippedUnsupportedGeometry = 0
  /\ skippedByProfile = 0
  /\ skippedTooLongLines = 0
  /\ skippedInvalidJsonLines = 0
  /\ maxTooLongLineBytes = 0
  /\ maxInvalidJsonLineBytes = 0
  /\ geometryTypeCounts = [g \in GeometryTypes |-> 0]
  /\ unsupportedGeometryTypeCounts = [g \in GeometryTypes |-> 0]
  /\ clock = 0
  /\ clockRead = FALSE
  /\ lastProgressAt = 0
  /\ sinkCount = 0
  /\ sinkLast = NoSnapshot
  /\ sinkPhases = {}
  /\ pushed = <<>>
  /\ settleOrder = <<>>
  /\ ticked = {}
  /\ input = <<>>
  /\ calls = <<>>
  /\ returned = <<>>
  /\ twin = NewChunker
  /\ lastFlush = "not-called"
  /\ ReaderIdle
  /\ ClientIdle

\* the limits of the CLI prompt (min: 1) and of the default: at least one
Init == InitWith(1..MaxConcurrency)

\* importOsm itself takes opts.concurrency as any number (lines 43-57)
UnvalidatedInit == InitWith(0..MaxConcurrency)

\* ---- the orchestrator ---------------------------------------------------------
NeedsClientAlways == TRUE

\* line 92: the store client is created unless the run is a dry run
NeedsClient == ~opts.dryRun

\* lines 84-105 and 222: input check, client, collection check, first snapshot
Start ==
  /\ pc = "start"
  /\ UNCHANGED <<config, chunkerLog, lineReader, arangoClient, input, ret, summary, consumed, record, chunker, uploads, inFlight,
                 waitVars, transportCounters, readerCounters, pushed, settleOrder, ticked>>
  /\ \E fileExists \in BOOLEAN, collectionExists \in BOOLEAN :
       IF ~fileExists
         THEN /\ Fail("input-not-found")
              /\ UNCHANGED <<dbClient, progressVars>>
         ELSE /\ dbClient' = NeedsClient
              /\ IF ~opts.dryRun /\ ~collectionExists
                   THEN /\ Fail("collection-not-found")
                        /\ UNCHANGED progressVars
                   ELSE /\ reportProgress("reading", TRUE)
                        /\ pc' = IF opts.adapter = "ndjson" THEN "reading" ELSE "spawn"
                        /\ UNCHANGED failure

\* lines 271-293: spawnOsmiumExport
SpawnOsmium ==
  /\ pc = "spawn"
  /\ \E ok \in BOOLEAN :
       IF ok THEN pc' = "reading" /\ UNCHANGED failure
             ELSE Fail("osmium-spawn")
  /\ UNCHANGED <<config, chunkerLog, lineReader, arangoClient, input, ret, summary, dbClient, consumed, record, chunker, uploads,
                 inFlight, waitVars, transportCounters, readerCounters, progressVars,
                 pushed, settleOrder, ticked>>

CanRead == pc = "reading" /\ consumed < MaxLines

\* What the reader delivered so far, one entry per line of the input: the kind
\* of line, the record number the loop gave it (0 when readLines dropped it
\* before the loop saw it) and, for a document, its tags and geometry type.
Line(kind, n, tags, geometryType) ==
  [kind |-> kind, record |-> n, tags |-> tags, type |-> geometryType]

\* lines 226-230: readLines dropped a line longer than maxLineBytes
TooLongLine ==
  /\ CanRead
  /\ input' = Append(input, Line("too-long", 0, {}, ""))
  /\ consumed' = consumed + 1
  /\ \E b \in {opts.maxLineBytes + 1, opts.maxLineBytes + 2} :
       /\ skippedTooLongLines' = skippedTooLongLines + 1
       /\ maxTooLongLineBytes' = Max(maxTooLongLineBytes, b)
  /\ UNCHANGED <<seen, skippedUnsupportedGeometry, skippedByProfile,
                 skippedInvalidJsonLines, maxInvalidJsonLineBytes, geometryTypeCounts,
                 unsupportedGeometryTypeCounts, transportCounters>>
  /\ reportProgress("reading", FALSE)
  /\ UNCHANGED <<config, chunkerLog, lineReader, arangoClient, pc, ret, failure, summary, dbClient, record, chunker, uploads,
                 inFlight, waitVars, pushed, settleOrder, ticked>>

\* lines 243-246: a line that is empty after trimming
BlankLine ==
  /\ CanRead
  /\ input' = Append(input, Line("blank", record + 1, {}, ""))
  /\ consumed' = consumed + 1
  /\ record' = record + 1
  /\ UNCHANGED <<config, chunkerLog, lineReader, arangoClient, pc, ret, failure, summary, dbClient, chunker, uploads,
                 inFlight, waitVars, transportCounters, readerCounters, progressVars,
                 pushed, settleOrder, ticked>>

invalidJsonModeAlwaysSkip == "skip"

\* line 237
invalidJsonMode == opts.invalidJson

\* lines 247-261 (313-326): a line that JSON.parse rejects
InvalidJsonLine ==
  /\ CanRead
  /\ input' = Append(input, Line("invalid-json", record + 1, {}, ""))
  /\ consumed' = consumed + 1
  /\ record' = record + 1
  /\ UNCHANGED <<config, chunkerLog, lineReader, arangoClient, ret, summary, dbClient, chunker, uploads, inFlight, waitVars,
                 transportCounters, seen, skippedUnsupportedGeometry, skippedByProfile,
                 skippedTooLongLines, maxTooLongLineBytes, geometryTypeCounts,
                 unsupportedGeometryTypeCounts, pushed, settleOrder, ticked>>
  /\ \E len \in 1..MaxLineLen :
       IF invalidJsonMode = "skip"
         THEN /\ skippedInvalidJsonLines' = skippedInvalidJsonLines + 1
              /\ maxInvalidJsonLineBytes' = Max(maxInvalidJsonLineBytes, len)
              /\ reportProgress("reading", FALSE)
              /\ UNCHANGED <<pc, failure>>
         ELSE /\ Fail("invalid-json")
              /\ UNCHANGED <<skippedInvalidJsonLines, maxInvalidJsonLineBytes, progressVars>>

\* lines 262 / 327: normalizeInputToDoc / osmiumGeoJsonFeatureToDoc throws
BadDocumentLine ==
  /\ CanRead
  /\ input' = Append(input, Line("bad-document", record + 1, {}, ""))
  /\ consumed' = consumed + 1
  /\ record' = record + 1
  /\ Fail("bad-document")
  /\ UNCHANGED <<config, chunkerLog, lineReader, arangoClient, ret, summary, dbClient, chunker, uploads, inFlight, waitVars,
                 transportCounters, readerCounters, progressVars, pushed, settleOrder, ticked>>

TrackOutcomeSkipPushes(tags, geometryType) ==
  IF ~shouldImportFeatureForProfile(tags, opts.profile) THEN "skip-profile"
  ELSE IF isArangoSupportedGeoJsonGeometryType(geometryType) THEN "push"
  ELSE IF opts.unsupportedGeometry = "error" THEN "throw"
  ELSE "push"

TrackOutcomeKeepSkips(tags, geometryType) ==
  IF ~shouldImportFeatureForProfile(tags, opts.profile) THEN "skip-profile"
  ELSE IF isArangoSupportedGeoJsonGeometryType(geometryType) THEN "push"
  ELSE IF opts.unsupportedGeometry = "error" THEN "throw"
  ELSE "skip-geometry"

TrackOutcomeNoError(tags, geometryType) ==
  IF ~shouldImportFeatureForProfile(tags, opts.profile) THEN "skip-profile"
  ELSE IF isArangoSupportedGeoJsonGeometryType(geometryType) THEN "push"
  ELSE IF opts.unsupportedGeometry = "keep" THEN "push"
  ELSE "skip-geometry"

TrackOutcomeDropsUncounted(tags, geometryType) ==
  IF ~shouldImportFeatureForProfile(tags, opts.profile) THEN "skip-profile"
  ELSE IF isArangoSupportedGeoJsonGeometryType(geometryType) THEN "push"
  ELSE IF opts.unsupportedGeometry = "keep" THEN "push"
  ELSE IF opts.unsupportedGeometry = "error" THEN "throw"
  ELSE "drop"

\* trackAndMaybeSkip (lines 189-220): what becomes of a document
TrackOutcome(tags, geometryType) ==
  IF ~shouldImportFeatureForProfile(tags, opts.profile) THEN "skip-profile"
  ELSE IF isArangoSupportedGeoJsonGeometryType(geometryType) THEN "push"
  ELSE IF opts.unsupportedGeometry = "keep" THEN "push"
  ELSE IF opts.unsupportedGeometry = "error" THEN "throw"
  ELSE "skip-geometry"

CountsUnsupportedBeforeFilter(tags, geometryType) ==
  ~isArangoSupportedGeoJsonGeometryType(geometryType)

\* line 205 is reached exactly for the documents that pass the profile filter
\* and have an unsupported geometry type
CountsUnsupported(tags, geometryType) ==
  /\ shouldImportFeatureForProfile(tags, opts.profile)
  /\ ~isArangoSupportedGeoJsonGeometryType(geometryType)

\* lines 262-267 (327-331): a line that parses to a document
DocLine ==
  /\ CanRead
  /\ consumed' = consumed + 1
  /\ record' = record + 1
  /\ UNCHANGED <<config, chunkerLog, lineReader, arangoClient, summary, dbClient, transportCounters, skippedTooLongLines,
                 skippedInvalidJsonLines, maxTooLongLineBytes, maxInvalidJsonLineBytes,
                 settleOrder, ticked>>
  /\ \E tags \in TagSets, geometryType \in GeometryTypes, len \in 1..MaxLineLen :
       LET outcome == TrackOutcome(tags, geometryType)
           doc == [key |-> record + 1, type |-> geometryType]
           docBytes == len + 1
       IN /\ input' = Append(input, Line("document", record + 1, tags, geometryType))
          /\ seen' = seen + 1
          /\ geometryTypeCounts' =
               [geometryTypeCounts EXCEPT ![geometryType] = @ + 1]
          /\ unsupportedGeometryTypeCounts' =
               IF CountsUnsupported(tags, geometryType)
                 THEN [unsupportedGeometryTypeCounts EXCEPT ![geometryType] = @ + 1]
                 ELSE unsupportedGeometryTypeCounts
          /\ skippedByProfile' =
               IF outcome = "skip-profile" THEN skippedByProfile + 1 ELSE skippedByProfile
          /\ skippedUnsupportedGeometry' =
               IF outcome = "skip-geometry" THEN skippedUnsupportedGeometry + 1
               ELSE skippedUnsupportedGeometry
          /\ IF outcome = "throw"
               THEN /\ Fail("unsupported-geometry")
                    /\ UNCHANGED <<ret, chunker, uploads, inFlight, waitVars, progressVars,
                                   pushed>>
               ELSE /\ reportProgress("reading", FALSE)
                    /\ UNCHANGED failure
                    /\ IF outcome # "push"
                         THEN UNCHANGED <<pc, ret, chunker, uploads, inFlight, waitVars,
                                          pushed>>
                         ELSE /\ pushed' = Append(pushed, doc)
                              /\ docs' = ChunkerDocsAfterPush(docs, bytes, doc, docBytes,
                                                              opts.chunkBytes)
                              /\ bytes' = ChunkerBytesAfterPush(docs, bytes, docBytes,
                                                                opts.chunkBytes)
                              /\ IF ChunkerCloses(docs, bytes, docBytes, opts.chunkBytes)
                                   THEN enqueueChunk(docs, "reading")
                                   ELSE UNCHANGED <<pc, ret, uploads, inFlight, waitVars>>

\* lines 354-355: the finalizing snapshot and the call of Promise.all(inFlight)
StartAwaitAll ==
  /\ reportProgress("finalizing", TRUE)
  /\ waitSet' = inFlight
  /\ firstRejected' = AllFirstRejected(inFlight, uploads)
  /\ pc' = "awaitAll"

FlushFinalForgotten ==
  /\ UNCHANGED <<docs, bytes>>
  /\ StartAwaitAll
  /\ UNCHANGED <<ret, uploads, inFlight, firstSettled>>

\* lines 350-355: importer.flush(); an open batch is dispatched like any other
\* (`await enqueueChunk(final)`), with none open line 354 follows at once
FlushFinal ==
  /\ docs' = <<>>
  /\ bytes' = 0
  /\ IF Len(docs) = 0
       THEN /\ StartAwaitAll
            /\ UNCHANGED <<ret, uploads, inFlight, firstSettled>>
       ELSE /\ enqueueChunk(docs, "finalize")
            /\ UNCHANGED progressVars

\* the stream ended (ndjson: the loop of line 242 ends; osmium: line 307)
EndOfInput ==
  /\ pc = "reading"
  /\ UNCHANGED <<config, chunkerLog, lineReader, arangoClient, input, failure, summary, dbClient, consumed, record, transportCounters,
                 readerCounters, pushed, settleOrder, ticked>>
  /\ IF opts.adapter = "ndjson"
       THEN FlushFinal
       ELSE /\ pc' = "exited"
            /\ UNCHANGED <<ret, chunker, uploads, inFlight, waitVars, progressVars>>

\* lines 299-304: osmium's output ended in the middle of a record
FinalPartialLine ==
  /\ pc = "reading"
  /\ input' = Append(input, Line("partial", 0, {}, ""))
  /\ opts.adapter = "osmium-geojsonseq"
  /\ \E b \in 1..MaxLineLen :
       /\ skippedInvalidJsonLines' = skippedInvalidJsonLines + 1
       /\ maxInvalidJsonLineBytes' = Max(maxInvalidJsonLineBytes, b)
  /\ UNCHANGED <<seen, skippedUnsupportedGeometry, skippedByProfile, skippedTooLongLines,
                 maxTooLongLineBytes, geometryTypeCounts, unsupportedGeometryTypeCounts,
                 transportCounters>>
  /\ reportProgress("reading", FALSE)
  /\ pc' = "exited"
  /\ UNCHANGED <<config, chunkerLog, lineReader, arangoClient, ret, failure, summary, dbClient, consumed, record, chunker,
                 uploads, inFlight, waitVars, pushed, settleOrder, ticked>>

OsmiumExitFlushesFirst ==
  /\ pc = "exited"
  /\ UNCHANGED <<config, chunkerLog, lineReader, arangoClient, input, summary, dbClient, consumed, record, transportCounters,
                 readerCounters, pushed, settleOrder, ticked>>
  /\ \E exitCode \in ExitCodes :
       IF exitCode # 0
         THEN /\ Fail(IF exitCode = 137 THEN "osmium-oom" ELSE "osmium-exit")
              /\ docs' = <<>>
              /\ bytes' = 0
              /\ IF Len(docs) = 0 \/ opts.dryRun \/ ~dbClient
                   THEN UNCHANGED <<uploads, inFlight>>
                   ELSE /\ uploads' = Append(uploads, [docs |-> docs, status |-> "pending",
                                                       res |-> NoResult])
                        /\ inFlight' = inFlight \cup {Len(uploads) + 1}
              /\ UNCHANGED <<ret, waitVars, progressVars>>
         ELSE /\ FlushFinal
              /\ UNCHANGED failure

\* lines 334-345: await proc.exited
OsmiumExit ==
  /\ pc = "exited"
  /\ UNCHANGED <<config, chunkerLog, lineReader, arangoClient, input, summary, dbClient, consumed, record, transportCounters,
                 readerCounters, pushed, settleOrder, ticked>>
  /\ \E exitCode \in ExitCodes :
       IF exitCode # 0
         THEN /\ Fail(IF exitCode = 137 THEN "osmium-oom" ELSE "osmium-exit")
              /\ UNCHANGED <<ret, chunker, uploads, inFlight, waitVars, progressVars>>
         ELSE /\ FlushFinal
              /\ UNCHANGED failure

\* lines 178-180: resumed from await Promise.race(inFlight)
RaceWake ==
  /\ pc = "race"
  /\ firstSettled # 0
  /\ firstSettled \notin inFlight
  /\ IF uploads[firstSettled].status = "rejected"
       THEN /\ Fail("upload-failed")
            /\ UNCHANGED <<ret, waitVars>>
       ELSE /\ UNCHANGED failure
            /\ IF MustWait(inFlight)
                 THEN /\ waitSet' = inFlight
                      /\ firstSettled' = RaceFirst(inFlight, uploads)
                      /\ UNCHANGED <<pc, ret, firstRejected>>
                 ELSE /\ pc' = ret
                      /\ UNCHANGED <<ret, waitVars>>
  /\ UNCHANGED <<config, chunkerLog, lineReader, arangoClient, input, summary, dbClient, consumed, record, chunker, uploads, inFlight,
                 transportCounters, readerCounters, progressVars, pushed, settleOrder, ticked>>

\* lines 352-355: resumed from `await enqueueChunk(final)`
Finalize ==
  /\ pc = "finalize"
  /\ UNCHANGED <<transportCounters, readerCounters>>
  /\ StartAwaitAll
  /\ ticked' = {}
  /\ UNCHANGED <<config, chunkerLog, lineReader, arangoClient, input, ret, failure, summary, dbClient, consumed, record, chunker,
                 uploads, inFlight, firstSettled, pushed, settleOrder>>

\* line 355: Promise.all(inFlight) rejected
AllReject ==
  /\ pc = "awaitAll"
  /\ firstRejected # 0
  /\ firstRejected \notin inFlight
  /\ Fail("upload-failed")
  /\ UNCHANGED <<config, chunkerLog, lineReader, arangoClient, input, ret, summary, dbClient, consumed, record, chunker, uploads,
                 inFlight, waitVars, transportCounters, readerCounters, progressVars,
                 pushed, settleOrder, ticked>>

ImportSummary ==
  [profile |-> opts.profile, seen |-> seen, created |-> created, updated |-> updated,
   ignored |-> ignored, empty |-> empty, errors |-> errors,
   skippedUnsupportedGeometry |-> skippedUnsupportedGeometry,
   skippedByProfile |-> skippedByProfile,
   skippedTooLongLines |-> skippedTooLongLines,
   skippedInvalidJsonLines |-> skippedInvalidJsonLines,
   maxInvalidJsonLineBytes |-> maxInvalidJsonLineBytes,
   maxTooLongLineBytes |-> maxTooLongLineBytes,
   unsupportedGeometryMode |-> opts.unsupportedGeometry,
   geometryTypeCounts |-> geometryTypeCounts,
   unsupportedGeometryTypeCounts |-> unsupportedGeometryTypeCounts]

HasManyImportErrors == errors > 1

\* line 359: server-side import errors are fatal
HasImportErrors == errors > 0

AllNotAwaited == TRUE

\* line 355: Promise.all(inFlight) is fulfilled once every member is
AllFulfilled ==
  \A u \in waitSet : uploads[u].status = "fulfilled" /\ u \notin inFlight

\* lines 355-380: Promise.all(inFlight) fulfilled; done snapshot, then the result
AllDone ==
  /\ pc = "awaitAll"
  /\ AllFulfilled
  /\ UNCHANGED <<transportCounters, readerCounters>>
  /\ reportProgress("done", TRUE)
  /\ IF HasImportErrors
       THEN Fail("import-errors") /\ UNCHANGED summary
       ELSE /\ pc' = "returned"
            /\ summary' = <<ImportSummary>>
            /\ UNCHANGED failure
  /\ UNCHANGED <<config, chunkerLog, lineReader, arangoClient, input, ret, dbClient, consumed, record, chunker, uploads, inFlight,
                 waitVars, pushed, settleOrder, ticked>>

\* ---- the uploads --------------------------------------------------------------
\* one callback of upload u runs; in the tick after line 352 it is the only one
Tick(u) ==
  /\ pc = "finalize" => u \notin ticked
  /\ ticked' = IF pc = "finalize" THEN ticked \cup {u} ELSE ticked

\* a pending upload settles: the waiting Promise.race / Promise.all notes it
NoteSettled(u, status) ==
  /\ firstSettled' =
       IF pc = "race" /\ firstSettled = 0 /\ u \in waitSet THEN u ELSE firstSettled
  /\ firstRejected' =
       IF pc = "awaitAll" /\ firstRejected = 0 /\ u \in waitSet /\ status = "rejected"
         THEN u ELSE firstRejected
  /\ UNCHANGED waitSet

\* lines 164-173: importDocuments resolved, the result is folded into the counters
UploadResolve ==
  \E u \in 1..Len(uploads), res \in TransportResults :
    /\ uploads[u].status = "pending"
    /\ Tick(u)
    /\ uploads' = [uploads EXCEPT ![u].status = "fulfilled", ![u].res = res]
    /\ created' = Fold(created, res.created)
    /\ updated' = Fold(updated, res.updated)
    /\ ignored' = Fold(ignored, res.ignored)
    /\ empty' = Fold(empty, res.empty)
    /\ errors' = Fold(errors, res.errors)
    /\ UNCHANGED readerCounters
    /\ reportProgress("importing", FALSE)
    /\ NoteSettled(u, "fulfilled")
    /\ settleOrder' = Append(settleOrder, u)
    /\ UNCHANGED <<config, chunkerLog, lineReader, arangoClient, input, pc, ret, failure, summary, dbClient, consumed, record, chunker,
                   inFlight, pushed>>

\* line 164: importDocuments rejected; the .then callback is skipped
UploadReject ==
  \E u \in 1..Len(uploads) :
    /\ uploads[u].status = "pending"
    /\ Tick(u)
    /\ uploads' = [uploads EXCEPT ![u].status = "rejected"]
    /\ NoteSettled(u, "rejected")
    /\ settleOrder' = Append(settleOrder, u)
    /\ UNCHANGED <<config, chunkerLog, lineReader, arangoClient, input, pc, ret, failure, summary, dbClient, consumed, record, chunker,
                   inFlight, transportCounters, readerCounters, progressVars, pushed>>

\* line 176: p.finally(() => inFlight.delete(p)).catch(() => {})
FinallyDelete ==
  \E u \in inFlight :
    /\ Settled(u)
    /\ Tick(u)
    /\ inFlight' = inFlight \ {u}
    /\ UNCHANGED <<config, chunkerLog, lineReader, arangoClient, input, pc, ret, failure, summary, dbClient, consumed, record, chunker,
                   uploads, waitVars, transportCounters, readerCounters, progressVars,
                   pushed, settleOrder>>

Next ==
  \/ Start
  \/ SpawnOsmium
  \/ TooLongLine
  \/ BlankLine
  \/ InvalidJsonLine
  \/ BadDocumentLine
  \/ DocLine
  \/ EndOfInput
  \/ FinalPartialLine
  \/ OsmiumExit
  \/ RaceWake
  \/ Finalize
  \/ AllReject
  \/ AllDone
  \/ UploadResolve
  \/ UploadReject
  \/ FinallyDelete

Spec == Init /\ [][Next]_vars

UnvalidatedSpec == UnvalidatedInit /\ [][Next]_vars

\* The continuation of importOsm itself: one of these is what the event loop
\* runs next whenever the function is not suspended on a pending promise.
ImportOsmStep ==
  \/ Start
  \/ SpawnOsmium
  \/ TooLongLine
  \/ BlankLine
  \/ InvalidJsonLine
  \/ BadDocumentLine
  \/ DocLine
  \/ EndOfInput
  \/ FinalPartialLine
  \/ OsmiumExit
  \/ RaceWake
  \/ Finalize
  \/ AllReject
  \/ AllDone

\* The event loop runs every ready continuation and every callback of a settled
\* promise; that each dispatched upload settles is the hypothesis on the store.
FairSpec ==
  /\ Spec
  /\ WF_vars(ImportOsmStep)
  /\ WF_vars(UploadResolve \/ UploadReject)
  /\ WF_vars(FinallyDelete)

\* ---- the document chunker on its own --------------------------------------------
\* A chunker (docs, bytes) driven by arbitrary push and flush calls.  calls
\* lists the push calls made, returned the batches push and flush handed out.
\* twin is a second chunker with the same maxBytes that receives the same
\* documents and flushes, always without estimatedBytes.
ChunkerInit ==
  /\ \E m \in MaxBytesSet :
       opts = [concurrency |-> 1,
               unsupportedGeometry |-> DefaultOptions.unsupportedGeometry,
               invalidJson |-> DefaultOptions.invalidJson,
               dryRun |-> TRUE,
               adapter |-> DefaultOptions.adapter,
               chunkBytes |-> m,
               maxLineBytes |-> MaxLineLen,
               profile |-> "all"]
  /\ deps = [onProgress |-> FALSE, progressIntervalMs |-> 1]
  /\ pc = "chunker"
  /\ ret = "reading"
  /\ failure = "none"
  /\ summary = <<>>
  /\ dbClient = FALSE
  /\ consumed = 0
  /\ record = 0
  /\ docs = <<>>
  /\ bytes = 0
  /\ uploads = <<>>
  /\ inFlight = {}
  /\ waitSet = {}
  /\ firstSettled = 0
  /\ firstRejected = 0
  /\ seen = 0
  /\ created = 0
  /\ updated = 0
  /\ ignored = 0
  /\ empty = 0
  /\ errors = 0
  /\ skippedUnsupportedGeometry = 0
  /\ skippedByProfile = 0
  /\ skippedTooLongLines = 0
  /\ skippedInvalidJsonLines = 0
  /\ maxTooLongLineBytes = 0
  /\ maxInvalidJsonLineBytes = 0
  /\ geometryTypeCounts = [g \in GeometryTypes |-> 0]
  /\ unsupportedGeometryTypeCounts = [g \in GeometryTypes |-> 0]
  /\ clock = 0
  /\ clockRead = FALSE
  /\ lastProgressAt = 0
  /\ sinkCount = 0
  /\ sinkLast = NoSnapshot
  /\ sinkPhases = {}
  /\ pushed = <<>>
  /\ settleOrder = <<>>
  /\ ticked = {}
  /\ input = <<>>
  /\ calls = <<>>
  /\ returned = <<>>
  /\ twin = NewChunker
  /\ lastFlush = "not-called"
  /\ ReaderIdle
  /\ ClientIdle

notChunker ==
  <<config, pc, ret, failure, summary, dbClient, consumed, record, uploads, inFlight,
    waitVars, transportCounters, readerCounters, progressVars, pushed, settleOrder,
    ticked, input, lineReader, arangoClient>>

\* push(doc, estimatedBytes) on chunker c (lines 23-40)
PushOn(c, doc, estimatedBytes, at, maxBytes) ==
  LET docBytes == DocBytes(doc, estimatedBytes)
  IN [docs |-> ChunkerDocsAfterPush(c.docs, c.bytes, doc, docBytes, maxBytes),
      bytes |-> ChunkerBytesAfterPush(c.docs, c.bytes, docBytes, maxBytes),
      returned |->
        IF ChunkerCloses(c.docs, c.bytes, docBytes, maxBytes)
          THEN Append(c.returned, Returned(c.docs, "push", at))
          ELSE c.returned]

FlushOnKeepsBytes(c, at) ==
  IF Len(c.docs) = 0
    THEN c
    ELSE [docs |-> <<>>, bytes |-> c.bytes,
          returned |-> Append(c.returned, Returned(c.docs, "flush", at))]

\* what flush() returns (lines 15-16, 20): undefined when nothing is open
FlushReturns(c) == IF Len(c.docs) = 0 THEN "undefined" ELSE "chunk"

\* flush() on chunker c (lines 14-21)
FlushOn(c, at) ==
  IF Len(c.docs) = 0
    THEN c
    ELSE [docs |-> <<>>, bytes |-> 0,
          returned |-> Append(c.returned, Returned(c.docs, "flush", at))]

ChunkerPush ==
  /\ pc = "chunker"
  /\ Len(calls) < MaxPushes
  /\ \E j \in JsonSizes, estimatedBytes \in Estimates :
       LET doc == [key |-> Len(calls) + 1, json |-> j]
           at == Len(calls) + 1
           c == PushOn([docs |-> docs, bytes |-> bytes, returned |-> returned],
                       doc, estimatedBytes, at, opts.chunkBytes)
       IN /\ calls' = Append(calls, [doc |-> doc, estimatedBytes |-> estimatedBytes])
          /\ docs' = c.docs
          /\ bytes' = c.bytes
          /\ returned' = c.returned
          /\ twin' = PushOn(twin, doc, NoEstimate, at, opts.chunkBytes)
  /\ lastFlush' = "not-called"
  /\ UNCHANGED notChunker

ChunkerFlush ==
  /\ pc = "chunker"
  /\ LET c == FlushOn([docs |-> docs, bytes |-> bytes, returned |-> returned], Len(calls))
     IN /\ docs' = c.docs
        /\ bytes' = c.bytes
        /\ returned' = c.returned
  /\ twin' = FlushOn(twin, Len(calls))
  /\ lastFlush' = FlushReturns([docs |-> docs, bytes |-> bytes, returned |-> returned])
  /\ UNCHANGED calls
  /\ UNCHANGED notChunker

ChunkerNext ==
  \/ ChunkerPush
  \/ ChunkerFlush

ChunkerSpec == ChunkerInit /\ [][ChunkerNext]_vars

\* ---- the line reader (src/util/lines.ts) ------------------------------------
\* A byte is its hex name: 0A is the newline, 61 a letter, EF BB BF the UTF-8
\* form of U+FEFF (the byte order mark); BB and BF alone are continuation
\* bytes.  A string is the sequence of its characters, a character is the
\* sequence of bytes that encodes it.
MaxStreamLen == 4
Bytes == {"0A", "61", "EF", "BB", "BF"}
LineLimits == {0, 1, 3}
Streams == UNION {[1..n -> Bytes] : n \in 0..MaxStreamLen}
ReadOptSets ==
  {[maxLineBytes |-> NoLimit, tooLongLine |-> "error", flushFinalPartialLine |-> f] :
     f \in BOOLEAN}
  \cup [maxLineBytes : LineLimits, tooLongLine : {"skip", "error"},
        flushFinalPartialLine : BOOLEAN]

NL == "0A"
Continuation == {"BB", "BF"}
ReplacementChar == <<"EF", "BF", "BD">>
ByteOrderMark == <<"EF", "BB", "BF">>

\* the UTF-8 decoder of new TextDecoder(): an ill-formed sequence becomes
\* U+FFFD (the decoder is not fatal) and decoding resumes at the first byte
\* that cannot continue the sequence
RECURSIVE DecodeFrom(_, _)
DecodeFrom(b, i) ==
  IF i > Len(b) THEN <<>>
  ELSE IF b[i] \notin {"EF"} \cup Continuation THEN <<<<b[i]>>>> \o DecodeFrom(b, i + 1)
  ELSE IF b[i] = "EF" /\ i + 1 <= Len(b) /\ b[i + 1] \in Continuation
    THEN IF i + 2 <= Len(b) /\ b[i + 2] \in Continuation
           THEN <<SubSeq(b, i, i + 2)>> \o DecodeFrom(b, i + 3)
           ELSE <<ReplacementChar>> \o DecodeFrom(b, i + 2)
  ELSE <<ReplacementChar>> \o DecodeFrom(b, i + 1)

\* decoder.decode(buf), called without {stream: true}: each call is a whole
\* decode, so a byte order mark at the start of buf is not part of the result
\* (ignoreBOM is false)
Decode(b) ==
  LET text == DecodeFrom(b, 1)
  IN IF text # <<>> /\ Head(text) = ByteOrderMark THEN Tail(text) ELSE text

DecodeKeepsBOM(b) == DecodeFrom(b, 1)

\* the UTF-8 bytes of a string
RECURSIVE Encode(_)
Encode(text) == IF text = <<>> THEN <<>> ELSE Head(text) \o Encode(Tail(text))

RECURSIVE Concat(_)
Concat(ps) == IF ps = <<>> THEN <<>> ELSE Head(ps) \o Concat(Tail(ps))

Yield(line) == [event |-> "yield", line |-> line]
TooLong(n, m) == [event |-> "onTooLongLine", bytes |-> n, maxLineBytes |-> m]
FinalPartial(n) == [event |-> "onFinalPartialLine", bytes |-> n]

\* the reader's locals and what it has handed to its consumer so far
NewReader ==
  [parts |-> <<>>, partsBytes |-> 0, dropping |-> FALSE, droppedBytes |-> 0,
   out |-> <<>>, rlState |-> "reading"]

Limited(o) == o.maxLineBytes # NoLimit

\* finishDroppedLine (lines 63-71)
finishDroppedLineLosesCount(o, r) ==
  IF ~r.dropping THEN r
  ELSE [r EXCEPT !.dropping = FALSE,
                 !.out = IF Limited(o) THEN Append(@, TooLong(o.maxLineBytes + 1, o.maxLineBytes))
                         ELSE @,
                 !.droppedBytes = 0]

finishDroppedLine(o, r) ==
  IF ~r.dropping THEN r
  ELSE [r EXCEPT !.dropping = FALSE,
                 !.out = IF Limited(o) THEN Append(@, TooLong(r.droppedBytes, o.maxLineBytes))
                         ELSE @,
                 !.droppedBytes = 0]

pushPartReplaces(r, part) ==
  IF Len(part) = 0 THEN r
  ELSE [r EXCEPT !.parts = <<part>>, !.partsBytes = Len(part)]

\* pushPart (lines 73-78)
pushPart(r, part) ==
  IF Len(part) = 0 THEN r
  ELSE [r EXCEPT !.parts = Append(@, part), !.partsBytes = @ + Len(part)]

\* decodeParts (lines 80-96)
decodePartsOneByOne(r) ==
  IF r.partsBytes = 0 THEN <<>>
  ELSE Concat([i \in 1..Len(r.parts) |-> Decode(r.parts[i])])

decodeParts(r) ==
  IF r.partsBytes = 0 THEN <<>>
  ELSE IF Len(r.parts) = 1 THEN Decode(r.parts[1])
  ELSE Decode(Concat(r.parts))

\* chunk.indexOf(10, start), 0 when there is none
IndexOfNL(chunk, start) ==
  IF \E i \in start..Len(chunk) : chunk[i] = NL
    THEN MinOf({i \in start..Len(chunk) : chunk[i] = NL})
    ELSE 0

\* the branch of lines 102-120: the chunk holds no further newline
TailStepRetains(o, r, tail) ==
  IF r.dropping THEN [r EXCEPT !.droppedBytes = @ + Len(tail)]
  ELSE LET p == pushPart(r, tail)
       IN IF Limited(o) /\ p.partsBytes > o.maxLineBytes
            THEN IF o.tooLongLine = "error"
                   THEN [p EXCEPT !.rlState = "threw"]
                   ELSE [p EXCEPT !.dropping = TRUE, !.droppedBytes = p.partsBytes]
            ELSE p

TailStep(o, r, tail) ==
  IF r.dropping THEN [r EXCEPT !.droppedBytes = @ + Len(tail)]
  ELSE LET p == pushPart(r, tail)
       IN IF Limited(o) /\ p.partsBytes > o.maxLineBytes
            THEN IF o.tooLongLine = "error"
                   THEN [p EXCEPT !.rlState = "threw"]
                   ELSE [p EXCEPT !.dropping = TRUE, !.droppedBytes = p.partsBytes,
                                  !.parts = <<>>, !.partsBytes = 0]
            ELSE p

\* the branch of lines 122-141: a newline closes the line
HeadStepYieldsPrefix(o, r, head) ==
  IF r.dropping
    THEN [finishDroppedLine(o, [r EXCEPT !.droppedBytes = @ + Len(head)])
            EXCEPT !.parts = <<>>, !.partsBytes = 0]
    ELSE LET p == pushPart(r, head)
         IN IF Limited(o) /\ p.partsBytes > o.maxLineBytes
              THEN [p EXCEPT !.out = Append(@, Yield(Decode(SubSeq(Concat(p.parts), 1,
                                                                o.maxLineBytes)))),
                             !.parts = <<>>, !.partsBytes = 0]
              ELSE [p EXCEPT !.out = Append(@, Yield(decodeParts(p))),
                             !.parts = <<>>, !.partsBytes = 0]

HeadStep(o, r, head) ==
  IF r.dropping
    THEN [finishDroppedLine(o, [r EXCEPT !.droppedBytes = @ + Len(head)])
            EXCEPT !.parts = <<>>, !.partsBytes = 0]
    ELSE LET p == pushPart(r, head)
         IN IF Limited(o) /\ p.partsBytes > o.maxLineBytes
              THEN IF o.tooLongLine = "error"
                     THEN [p EXCEPT !.rlState = "threw"]
                     ELSE [p EXCEPT !.out = Append(@, TooLong(p.partsBytes, o.maxLineBytes)),
                                    !.parts = <<>>, !.partsBytes = 0]
              ELSE [p EXCEPT !.out = Append(@, Yield(decodeParts(p))),
                             !.parts = <<>>, !.partsBytes = 0]

\* one turn of `for await (const chunk of stream)`, from `start` (lines 98-143)
RECURSIVE ProcessChunk(_, _, _, _)
ProcessChunk(o, r, chunk, start) ==
  LET nl == IndexOfNL(chunk, start)
  IN IF nl = 0
       THEN TailStep(o, r, SubSeq(chunk, start, Len(chunk)))
       ELSE LET h == HeadStep(o, r, SubSeq(chunk, start, nl - 1))
            IN IF h.rlState = "threw" THEN h ELSE ProcessChunk(o, h, chunk, nl + 1)

\* the end of the stream (lines 145-158)
EndOfStreamAlwaysFlushes(o, r) ==
  IF r.dropping THEN [finishDroppedLine(o, r) EXCEPT !.rlState = "done"]
  ELSE IF r.partsBytes > 0
    THEN [r EXCEPT !.out = Append(@, Yield(decodeParts(r))), !.rlState = "done"]
  ELSE [r EXCEPT !.rlState = "done"]

EndOfStreamFlushesEmpty(o, r) ==
  IF r.dropping THEN [finishDroppedLine(o, r) EXCEPT !.rlState = "done"]
  ELSE IF o.flushFinalPartialLine
         THEN [r EXCEPT !.out = Append(@, Yield(decodeParts(r))), !.rlState = "done"]
         ELSE [r EXCEPT !.out = Append(@, FinalPartial(r.partsBytes)), !.rlState = "done"]

EndOfStreamForgetsDropped(o, r) ==
  IF r.dropping THEN [r EXCEPT !.dropping = FALSE, !.droppedBytes = 0, !.rlState = "done"]
  ELSE IF r.partsBytes > 0
    THEN IF o.flushFinalPartialLine
           THEN [r EXCEPT !.out = Append(@, Yield(decodeParts(r))), !.rlState = "done"]
           ELSE [r EXCEPT !.out = Append(@, FinalPartial(r.partsBytes)), !.rlState = "done"]
  ELSE [r EXCEPT !.rlState = "done"]

EndOfStream(o, r) ==
  IF r.dropping THEN [finishDroppedLine(o, r) EXCEPT !.rlState = "done"]
  ELSE IF r.partsBytes > 0
    THEN IF o.flushFinalPartialLine
           THEN [r EXCEPT !.out = Append(@, Yield(decodeParts(r))), !.rlState = "done"]
           ELSE [r EXCEPT !.out = Append(@, FinalPartial(r.partsBytes)), !.rlState = "done"]
  ELSE [r EXCEPT !.rlState = "done"]

Reader ==
  [parts |-> parts, partsBytes |-> partsBytes, dropping |-> dropping,
   droppedBytes |-> droppedBytes, out |-> out, rlState |-> rlState]

Becomes(r) ==
  /\ parts' = r.parts
  /\ partsBytes' = r.partsBytes
  /\ dropping' = r.dropping
  /\ droppedBytes' = r.droppedBytes
  /\ out' = r.out
  /\ rlState' = r.rlState

\* every variable of the orchestrator and of the chunker, at rest
Detached(p) ==
  /\ opts = [concurrency |-> 1,
             unsupportedGeometry |-> DefaultOptions.unsupportedGeometry,
             invalidJson |-> DefaultOptions.invalidJson,
             dryRun |-> TRUE,
             adapter |-> DefaultOptions.adapter,
             chunkBytes |-> MinOf(ChunkBytesSet),
             maxLineBytes |-> MaxLineLen,
             profile |-> "all"]
  /\ deps = [onProgress |-> FALSE, progressIntervalMs |-> 1]
  /\ pc = p
  /\ ret = "reading"
  /\ failure = "none"
  /\ summary = <<>>
  /\ dbClient = FALSE
  /\ consumed = 0
  /\ record = 0
  /\ docs = <<>>
  /\ bytes = 0
  /\ uploads = <<>>
  /\ inFlight = {}
  /\ waitSet = {}
  /\ firstSettled = 0
  /\ firstRejected = 0
  /\ seen = 0
  /\ created = 0
  /\ updated = 0
  /\ ignored = 0
  /\ empty = 0
  /\ errors = 0
  /\ skippedUnsupportedGeometry = 0
  /\ skippedByProfile = 0
  /\ skippedTooLongLines = 0
  /\ skippedInvalidJsonLines = 0
  /\ maxTooLongLineBytes = 0
  /\ maxInvalidJsonLineBytes = 0
  /\ geometryTypeCounts = [g \in GeometryTypes |-> 0]
  /\ unsupportedGeometryTypeCounts = [g \in GeometryTypes |-> 0]
  /\ clock = 0
  /\ clockRead = FALSE
  /\ lastProgressAt = 0
  /\ sinkCount = 0
  /\ sinkLast = NoSnapshot
  /\ sinkPhases = {}
  /\ pushed = <<>>
  /\ settleOrder = <<>>
  /\ ticked = {}
  /\ input = <<>>
  /\ calls = <<>>
  /\ returned = <<>>
  /\ twin = NewChunker
  /\ lastFlush = "not-called"

notReader ==
  <<config, pc, ret, failure, summary, dbClient, consumed, record, chunker, uploads,
    inFlight, waitVars, transportCounters, readerCounters, progressVars, pushed,
    settleOrder, ticked, input, chunkerLog, arangoClient>>

\* readLines(stream, opts) was called and its consumer asked for the first line
LinesInit ==
  /\ Detached("lines")
  /\ ClientIdle
  /\ readOpts \in ReadOptSets
  /\ stream \in Streams
  /\ delivered = 0
  /\ parts = <<>>
  /\ partsBytes = 0
  /\ dropping = FALSE
  /\ droppedBytes = 0
  /\ out = <<>>
  /\ rlState = "called"
  /\ chunking = {}

\* lines 47-61: the options are read and checked, the locals are set up
ReadLinesStart ==
  /\ pc = "lines"
  /\ rlState = "called"
  /\ rlState' = IF Limited(readOpts) /\ readOpts.maxLineBytes <= 0 THEN "invalid" ELSE "reading"
  /\ UNCHANGED <<notReader, readOpts, stream, delivered, parts, partsBytes, dropping,
                 droppedBytes, out, chunking>>

\* where the boundary after byte `at` of the stream falls
BoundaryKinds(at) ==
  IF at = 0 \/ at >= Len(stream) THEN {}
  ELSE (IF stream[at] # NL THEN {"mid-line"} ELSE {})
       \cup (IF \/ /\ stream[at] = "EF"
                    /\ stream[at + 1] \in Continuation
                 \/ /\ at >= 2
                    /\ stream[at - 1] = "EF"
                    /\ stream[at] \in Continuation
                    /\ stream[at + 1] \in Continuation
               THEN {"mid-char"} ELSE {})

\* the stream hands over its next chunk, of any size (an empty one at most once);
\* the reader handles all of it (lines 98-143)
ReadChunk ==
  /\ pc = "lines"
  /\ rlState = "reading"
  /\ \E n \in 0..(Len(stream) - delivered) :
       /\ n = 0 => "empty" \notin chunking
       /\ Becomes(ProcessChunk(readOpts, Reader,
                               SubSeq(stream, delivered + 1, delivered + n), 1))
       /\ delivered' = delivered + n
       /\ chunking' = chunking \cup (IF n = 0 THEN {"empty"} ELSE BoundaryKinds(delivered + n))
  /\ UNCHANGED <<notReader, readOpts, stream>>

\* the stream is exhausted (lines 145-158)
ReadEnd ==
  /\ pc = "lines"
  /\ rlState = "reading"
  /\ delivered = Len(stream)
  /\ Becomes(EndOfStream(readOpts, Reader))
  /\ UNCHANGED <<notReader, readOpts, stream, delivered, chunking>>

LinesNext ==
  \/ ReadLinesStart
  \/ ReadChunk
  \/ ReadEnd

LinesSpec == LinesInit /\ [][LinesNext]_vars

\* ---- the ArangoDB client: importDocuments and its transports -----------------
\* A JavaScript value whose type the code tests with typeof: a number, a
\* string (a sequence of text tokens) or undefined.
Num(n) == [t |-> "number", v |-> n]
Str(text) == [t |-> "string", s |-> text]
Undef == [t |-> "undefined"]
IsNumber(x) == x.t = "number"

\* Text is a sequence of tokens: a literal piece, a space, a newline, or one
\* whole JSON value.
Lit(text) == [kind |-> "literal", s |-> text]
Space == [kind |-> "space"]
Newline == [kind |-> "newline"]
IsWhite(tok) == tok.kind \in {"space", "newline"}

\* JSON values a server may answer with
ResultJson(res) == [kind |-> "object", errorMessage |-> Undef, errorNum |-> Undef, result |-> res]
ErrorJson(msg, num) == [kind |-> "object", errorMessage |-> msg, errorNum |-> num, result |-> NoResult]
NumberJson(n) == [kind |-> "number", v |-> n]
NullJson == [kind |-> "null"]
JsonValues ==
  {ResultJson(res) : res \in TransportResults}
  \cup {ErrorJson(m, n) : m \in {Str(<<Lit("collection not found")>>), Str(<<>>), Undef},
                          n \in {Num(1203), Str(<<Lit("1203")>>), Undef}}
  \cup {NumberJson(3), NullJson}
BodyValues == JsonValues \cup {Lit("<html>Bad Gateway</html>")}
BodyTexts ==
  {<<>>, <<Space>>}
  \cup {<<v>> : v \in BodyValues}
  \cup {<<Space, v, Newline>> : v \in BodyValues}
  \cup {<<v, Newline, NumberJson(3)>> : v \in BodyValues}
StatusCodes == {199, 200, 299, 300, 404, 503}
HttpReplies == [kind : {"http"}, status : StatusCodes, body : BodyTexts]

\* String.prototype.trim
FirstBlack(text) == MinOf({i \in 1..Len(text) : ~IsWhite(text[i])})
LastBlack(text) == CHOOSE i \in 1..Len(text) :
                     /\ ~IsWhite(text[i])
                     /\ \A j \in (i + 1)..Len(text) : IsWhite(text[j])
Trim(text) ==
  IF \A i \in 1..Len(text) : IsWhite(text[i]) THEN <<>>
  ELSE SubSeq(text, FirstBlack(text), LastBlack(text))

\* JSON.parse: one JSON value, white space around it allowed; anything else
\* is a SyntaxError
JsonParse(text) ==
  LET black == SelectSeq(text, LAMBDA tok : ~IsWhite(tok))
  IN IF Len(black) = 1 /\ black[1].kind \in {"object", "number", "null"}
       THEN [ok |-> TRUE, value |-> black[1]]
       ELSE [ok |-> FALSE, value |-> NullJson]

\* thrown values: an Error (or an object that is none), with the fields the
\* mapping looks at
ErrorObject(name, message) ==
  [isError |-> TRUE, name |-> name, message |-> message, code |-> Undef, status |-> Undef,
   errorNum |-> Undef, response |-> Undef]
NewError(message) == ErrorObject("Error", message)

\* new ArangoApiError(message, status, errorNum)  (lines 274-284)
ArangoApiError(message, status, errorNum) ==
  [ErrorObject("ArangoApiError", message) EXCEPT !.status = Num(status), !.errorNum = errorNum]

\* getStatusCode (lines 639-659)
getStatusCode(err) ==
  IF err.t # "object" THEN Undef
  ELSE IF IsNumber(err.o.code) THEN err.o.code
  ELSE IF IsNumber(err.o.status) THEN err.o.status
  ELSE IF err.o.response.t = "object"
    THEN IF IsNumber(err.o.response.o.status) THEN err.o.response.o.status
         ELSE IF IsNumber(err.o.response.o.statusCode) THEN err.o.response.o.statusCode
         ELSE Undef
  ELSE Undef

\* getErrorNum (lines 661-681)
getErrorNum(err) ==
  IF err.t # "object" THEN Undef
  ELSE IF IsNumber(err.o.errorNum) THEN err.o.errorNum
  ELSE IF err.o.response.t = "object" /\ err.o.response.o.body.t = "object"
          /\ IsNumber(err.o.response.o.body.o.errorNum)
    THEN err.o.response.o.body.o.errorNum
  ELSE Undef

\* toArangoApiError (lines 683-688)
toArangoApiErrorKeepsThrown(err, fallbackMessage) ==
  IF err.t = "object" /\ err.o.isError THEN err.o
  ELSE ArangoApiError(fallbackMessage, 500, Undef)

toArangoApiError(err, fallbackMessage) ==
  LET code == getStatusCode(err)
  IN ArangoApiError(IF err.t = "object" /\ err.o.isError THEN err.o.message ELSE fallbackMessage,
                    IF code = Undef THEN 500 ELSE code.v,
                    getErrorNum(err))

Thrown(e) == [t |-> "object", o |-> e]
Fulfils(value) == [ok |-> TRUE, value |-> value]
Rejects(e) == [ok |-> FALSE, error |-> e]

\* conn.url as new URL(conn.url) sees it; the path is a sequence of "/" and names
MaxDocs == 2
Url(protocol, port, pathname) ==
  [parses |-> TRUE, protocol |-> protocol, hostname |-> "db.example", port |-> port,
   pathname |-> pathname]
NoUrl == [parses |-> FALSE, protocol |-> "", hostname |-> "", port |-> "", pathname |-> <<>>]
Urls ==
  {Url("http:", "8529", <<"/">>), Url("https:", "", <<"/", "arango", "/">>),
   Url("http:", "", <<"/", "arango">>), Url("ftp:", "", <<"/">>), NoUrl}
Connections ==
  [url : Urls, database : {<<Lit("osm")>>, <<Lit("geo"), Lit("/"), Lit("osm")>>},
   username : {"root"}, password : {"pw"},
   importTransport : {"arangojs", "node-http", "curl"}]
Collections == {<<Lit("osm_features")>>, <<Lit("my"), Space, Lit("features")>>}
\* documents, named by their _key; the second has a letter outside ASCII
DocKeys == {"a1", "a-umlaut-2"}

ImportCalls ==
  [collection : Collections,
   docs : UNION {[1..n -> DocKeys] : n \in 0..MaxDocs},
   onDuplicate : {Undef, Str(<<Lit("update")>>)}]

\* encodeURIComponent
encodeURIComponent(text) ==
  [i \in 1..Len(text) |->
     IF text[i] = Space THEN Lit("%20") ELSE IF text[i] = Lit("/") THEN Lit("%2F") ELSE text[i]]

\* the serialisation of URLSearchParams.toString
FormEncode(text) ==
  [i \in 1..Len(text) |->
     IF text[i] = Space THEN Lit("+") ELSE IF text[i] = Lit("/") THEN Lit("%2F") ELSE text[i]]

\* lines 447-448 and 556-557
ImportPathname(c) ==
  LET pathname == c.url.pathname
      basePath == IF Len(pathname) > 0 /\ pathname[Len(pathname)] = "/"
                    THEN SubSeq(pathname, 1, Len(pathname) - 1) ELSE pathname
  IN [path |-> basePath \o <<"/", "_db", "/">>, database |-> encodeURIComponent(c.database),
      rest |-> <<"/", "_api", "/", "import">>]

\* lines 450-455 and 559-564
SearchParams(call) ==
  <<[name |-> "collection", value |-> FormEncode(call.collection)],
    [name |-> "type", value |-> <<Lit("documents")>>]>>
    \o (IF call.onDuplicate # Undef
          THEN <<[name |-> "onDuplicate", value |-> call.onDuplicate.s]>>
          ELSE <<>>)

\* `${docs.map(d => JSON.stringify(d)).join('\n')}\n`  (lines 461 and 566)
RECURSIVE JoinLines(_)
JoinLines(ds) ==
  IF ds = <<>> THEN <<>>
  ELSE IF Len(ds) = 1 THEN <<[kind |-> "object", key |-> ds[1]]>>
  ELSE <<[kind |-> "object", key |-> ds[1]], Newline>> \o JoinLines(Tail(ds))
LdJson(ds) == JoinLines(ds) \o <<Newline>>

\* string length and UTF-8 byte length of a text: a document's JSON is its
\* key in braces, and the letter outside ASCII takes two bytes
TokenChars(tok) == IF tok.kind = "object" THEN 4 ELSE 1
TokenBytes(tok) == IF tok.kind = "object" /\ tok.key # "a1" THEN 5 ELSE TokenChars(tok)
RECURSIVE StringLength(_)
StringLength(text) == IF text = <<>> THEN 0 ELSE TokenChars(Head(text)) + StringLength(Tail(text))
RECURSIVE ByteLength(_)
ByteLength(text) == IF text = <<>> THEN 0 ELSE TokenBytes(Head(text)) + ByteLength(Tail(text))

\* Buffer.from(text, 'utf8')
Utf8(text) == [utf8 |-> text]

\* Buffer.from(`${conn.username}:${conn.password}`, 'utf8').toString('base64')
BasicAuth(c) ==
  <<Lit("Basic "), [kind |-> "base64", of |-> Utf8(<<c.username, ":", c.password>>)]>>

Header(name, value) == [name |-> name, value |-> value]

UnsupportedProtocol(c) == c.url.protocol \notin {"http:", "https:"}
InvalidUrlError == [ErrorObject("TypeError", <<Lit("Invalid URL")>>) EXCEPT !.code = Str(<<Lit("ERR_INVALID_URL")>>)]
ProtocolError == NewError(<<Lit("Unsupported ArangoDB URL protocol")>>)

\* the subprocess importDocumentsViaCurl spawns (lines 442-488)
CurlCommand(c, call) ==
  [cmd |-> "curl", sS |-> TRUE, X |-> "POST",
   url |-> [origin |-> <<c.url.protocol, "//", c.url.hostname, c.url.port>>,
            pathname |-> ImportPathname(c), search |-> SearchParams(call)],
   H |-> <<Header("authorization", BasicAuth(c)),
           Header("accept", <<Lit("application/json")>>),
           Header("content-type", <<Lit("application/x-ldjson")>>)>>,
   dataBinary |-> "@-", w |-> <<Newline, "%{http_code}">>,
   stdin |-> Utf8(LdJson(call.docs))]

\* the request importDocumentsViaNodeHttp makes (lines 551-607)
NodeHttpOptionsAcceptsAnything(c, call) ==
  [protocol |-> c.url.protocol, hostname |-> c.url.hostname,
   port |-> IF c.url.port # "" THEN c.url.port
            ELSE IF c.url.protocol = "https:" THEN "443" ELSE "80",
   method |-> "POST",
   path |-> [pathname |-> ImportPathname(c), search |-> SearchParams(call)],
   agent |-> FALSE,
   headers |-> <<Header("authorization", BasicAuth(c)),
                 Header("accept", <<Lit("*/*")>>),
                 Header("content-type", <<Lit("application/x-ldjson")>>),
                 Header("content-length", <<NumberJson(ByteLength(LdJson(call.docs)))>>)>>,
   end |-> LdJson(call.docs)]

NodeHttpOptions(c, call) ==
  [protocol |-> c.url.protocol, hostname |-> c.url.hostname,
   port |-> IF c.url.port # "" THEN c.url.port
            ELSE IF c.url.protocol = "https:" THEN "443" ELSE "80",
   method |-> "POST",
   path |-> [pathname |-> ImportPathname(c), search |-> SearchParams(call)],
   agent |-> FALSE,
   headers |-> <<Header("authorization", BasicAuth(c)),
                 Header("accept", <<Lit("application/json")>>),
                 Header("content-type", <<Lit("application/x-ldjson")>>),
                 Header("content-length", <<NumberJson(ByteLength(LdJson(call.docs)))>>)>>,
   end |-> LdJson(call.docs)]

\* db.collection(collection).import(docs, options)  (lines 417-418)
DriverCall(call) ==
  [collection |-> call.collection, docs |-> call.docs,
   options |-> IF call.onDuplicate # Undef THEN [onDuplicate |-> call.onDuplicate.s] ELSE Undef]

\* what goes over the wire: curl's reading of its arguments, node's of its options
Wire(method, pathname, search, headers, body) ==
  [method |-> method, pathname |-> pathname, search |-> search, headers |-> headers,
   body |-> body]
CurlSends(command) ==
  Wire(command.X, command.url.pathname, command.url.search,
       {command.H[i] : i \in 1..Len(command.H)}, command.stdin)
NodeHttpSends(options) ==
  Wire(options.method, options.path.pathname, options.path.search,
       {options.headers[i] : i \in 1..Len(options.headers)}, Utf8(options.end))

\* lines 514-533 and 609-628: the error for a response outside 2xx
ResponseError(text, status) ==
  LET parsed == JsonParse(text)
      isObject == parsed.ok /\ parsed.value.kind = "object"
      message == IF isObject /\ parsed.value.errorMessage.t = "string"
                   THEN parsed.value.errorMessage.s ELSE text
      errorNum == IF isObject /\ IsNumber(parsed.value.errorNum)
                    THEN parsed.value.errorNum ELSE Undef
  IN ArangoApiError(IF message = <<>> THEN <<Lit("ArangoDB import failed")>> ELSE message,
                    status, errorNum)

\* lines 535-541 and 630-636: the result of a 2xx response
ParseResult(text) ==
  IF JsonParse(text).ok THEN Fulfils(JsonParse(text).value)
  ELSE Rejects(NewError(<<Lit("Failed to parse ArangoDB import response")>>))

\* what the subprocess hands back for a reply of the server: curl -sS exits
\* with 0 and -w appends a newline and the status to the response body
CurlOutput(r) ==
  [exitCode |-> 0, stdout |-> r.body \o <<Newline, NumberJson(r.status)>>, stderr |-> <<>>]
ProcessFailures ==
  {[exitCode |-> 7, stdout |-> <<>>, stderr |-> <<Lit("curl: (7) Failed to connect")>>],
   [exitCode |-> 0, stdout |-> <<NumberJson(200)>>, stderr |-> <<>>],
   [exitCode |-> 0, stdout |-> <<ResultJson(NoResult), Newline, NumberJson(0)>>, stderr |-> <<>>],
   [exitCode |-> 0, stdout |-> <<ResultJson(NoResult), Newline, Lit("ok")>>, stderr |-> <<>>]}

\* Number(statusStr): the number, 0 for the empty string, NaN otherwise
ToNumber(text) ==
  IF text = <<>> THEN Num(0)
  ELSE IF Len(text) = 1 /\ text[1].kind = "number" THEN Num(text[1].v)
  ELSE [t |-> "NaN"]

LastNewline(text) ==
  IF \E i \in 1..Len(text) : text[i] = Newline
    THEN CHOOSE i \in 1..Len(text) :
           text[i] = Newline /\ \A j \in (i + 1)..Len(text) : text[j] # Newline
    ELSE 0

\* importDocumentsViaCurl after the subprocess ended (lines 490-541)
CurlSettlesFirstLine(proc) ==
  IF proc.exitCode # 0 THEN Rejects(NewError(<<Lit("curl import failed")>> \o proc.stderr))
  ELSE LET nl == LastNewline(proc.stdout)
           status == ToNumber(Trim(SubSeq(proc.stdout, nl + 1, Len(proc.stdout))))
           firstNl == MinOf({i \in 1..Len(proc.stdout) : proc.stdout[i] = Newline})
           responseBody == Trim(SubSeq(proc.stdout, 1, firstNl - 1))
       IN IF nl = 0
            THEN Rejects(NewError(<<Lit("Unexpected curl output (missing status code trailer)")>>))
          ELSE IF ~IsNumber(status) \/ status.v <= 0
            THEN Rejects(NewError(<<Lit("Unexpected curl HTTP status")>>))
          ELSE IF status.v < 200 \/ status.v >= 300
            THEN Rejects(ResponseError(responseBody, status.v))
          ELSE ParseResult(responseBody)

CurlSettles(proc) ==
  IF proc.exitCode # 0 THEN Rejects(NewError(<<Lit("curl import failed")>> \o proc.stderr))
  ELSE LET nl == LastNewline(proc.stdout)
           status == ToNumber(Trim(SubSeq(proc.stdout, nl + 1, Len(proc.stdout))))
           responseBody == Trim(SubSeq(proc.stdout, 1, nl - 1))
       IN IF nl = 0
            THEN Rejects(NewError(<<Lit("Unexpected curl output (missing status code trailer)")>>))
          ELSE IF ~IsNumber(status) \/ status.v <= 0
            THEN Rejects(NewError(<<Lit("Unexpected curl HTTP status")>>))
          ELSE IF status.v < 200 \/ status.v >= 300
            THEN Rejects(ResponseError(responseBody, status.v))
          ELSE ParseResult(responseBody)

\* importDocumentsViaNodeHttp after the response ended (lines 609-636)
NodeHttpSettles(res) ==
  IF res.statusCode < 200 \/ res.statusCode >= 300
    THEN Rejects(ResponseError(res.body, res.statusCode))
    ELSE ParseResult(res.body)

SocketError == [NewError(<<Lit("connect ECONNREFUSED")>>) EXCEPT !.code = Str(<<Lit("ECONNREFUSED")>>)]

\* what the arangojs driver may throw, and other thrown values
ResponseOf(status, statusCode, body) ==
  [t |-> "object", o |-> [status |-> status, statusCode |-> statusCode, body |-> body]]
DriverThrowables ==
  {Thrown([NewError(<<Lit("boom")>>) EXCEPT !.code = Num(503), !.errorNum = Num(12345)]),
   Thrown([NewError(<<Lit("conflict")>>) EXCEPT !.code = Num(409)]),
   Thrown([NewError(<<Lit("gone")>>) EXCEPT !.code = Num(410), !.status = Num(404)]),
   Thrown([NewError(<<Lit("not found")>>) EXCEPT !.status = Num(404), !.errorNum = Str(<<Lit("1203")>>)]),
   Thrown([NewError(<<Lit("bad gateway")>>)
             EXCEPT !.response = ResponseOf(Num(502), Undef,
                                            [t |-> "object", o |-> [errorNum |-> Num(7)]])]),
   Thrown([NewError(<<Lit("unavailable")>>) EXCEPT !.response = ResponseOf(Undef, Num(503), Undef)]),
   Thrown(SocketError),
   Thrown([NewError(<<>>) EXCEPT !.isError = FALSE, !.code = Num(409)]),
   [t |-> "string"]}

ImportFailed == <<Lit("Import failed for collection")>>

\* the catch of importDocuments (lines 420-422)
Caught(settles) ==
  IF settles.ok THEN settles
  ELSE Rejects(toArangoApiError(Thrown(settles.error), ImportFailed))

notClient ==
  <<config, ret, failure, summary, dbClient, consumed, record, chunker, uploads,
    inFlight, waitVars, transportCounters, readerCounters, progressVars, pushed,
    settleOrder, ticked, input, chunkerLog, lineReader>>

NoRequest == [transport |-> "none"]
NoReply == [kind |-> "none"]

\* a client made by createArangoClient(conn), before importDocuments is called
ClientInit ==
  /\ Detached("client")
  /\ ReaderIdle
  /\ conn \in Connections
  /\ importCall = "none"
  /\ request = NoRequest
  /\ reply = NoReply
  /\ settled = "none"

\* importDocuments(collection, docs, opts) up to the request (lines 403-418,
\* 442-488, 551-607); a URL the transport cannot use makes it throw before
\* anything is sent
ImportDocuments ==
  /\ pc = "client"
  /\ \E call \in ImportCalls :
       /\ importCall' = call
       /\ IF conn.importTransport = "arangojs"
            THEN /\ request' = [transport |-> "arangojs", call |-> DriverCall(call)]
                 /\ pc' = "client-sent"
                 /\ UNCHANGED settled
          ELSE IF ~conn.url.parses \/ UnsupportedProtocol(conn)
            THEN /\ request' = NoRequest
                 /\ pc' = "client-settled"
                 /\ settled' = Caught(Rejects(IF ~conn.url.parses THEN InvalidUrlError
                                              ELSE ProtocolError))
          ELSE /\ request' =
                    IF conn.importTransport = "curl"
                      THEN [transport |-> "curl", spawn |-> CurlCommand(conn, call)]
                      ELSE [transport |-> "node-http", options |-> NodeHttpOptions(conn, call)]
               /\ pc' = "client-sent"
               /\ UNCHANGED settled
  /\ UNCHANGED <<notClient, conn, reply>>

\* the server answers the request; the transport turns the answer into the
\* outcome of importDocuments
ServerReplies ==
  /\ pc = "client-sent"
  /\ conn.importTransport \in {"node-http", "curl"}
  /\ \E r \in HttpReplies :
       /\ reply' = r
       /\ settled' = Caught(IF conn.importTransport = "curl"
                              THEN CurlSettles(CurlOutput(r))
                              ELSE NodeHttpSettles([statusCode |-> r.status, body |-> r.body]))
  /\ pc' = "client-settled"
  /\ UNCHANGED <<notClient, conn, importCall, request>>

\* no answer arrives: the subprocess fails or prints something else, the
\* socket reports an error (line 605)
TransportFails ==
  /\ pc = "client-sent"
  /\ conn.importTransport \in {"node-http", "curl"}
  /\ \/ /\ conn.importTransport = "curl"
        /\ \E proc \in ProcessFailures :
             /\ reply' = [kind |-> "process", proc |-> proc]
             /\ settled' = Caught(CurlSettles(proc))
     \/ /\ conn.importTransport = "node-http"
        /\ reply' = [kind |-> "socket-error", thrown |-> Thrown(SocketError)]
        /\ settled' = Caught(Rejects(SocketError))
  /\ pc' = "client-settled"
  /\ UNCHANGED <<notClient, conn, importCall, request>>

\* the driver's import resolves (line 418)
DriverReturns ==
  /\ pc = "client-sent"
  /\ conn.importTransport = "arangojs"
  /\ \E res \in TransportResults :
       /\ reply' = [kind |-> "driver-result", res |-> res]
       /\ settled' = Fulfils(ResultJson(res))
  /\ pc' = "client-settled"
  /\ UNCHANGED <<notClient, conn, importCall, request>>

\* the driver's import throws (lines 418-422)
DriverThrows ==
  /\ pc = "client-sent"
  /\ conn.importTransport = "arangojs"
  /\ \E e \in DriverThrowables :
       /\ reply' = [kind |-> "driver-error", thrown |-> e]
       /\ settled' = Rejects(toArangoApiError(e, ImportFailed))
  /\ pc' = "client-settled"
  /\ UNCHANGED <<notClient, conn, importCall, request>>

ClientNext ==
  \/ ImportDocuments
  \/ ServerReplies
  \/ TransportFails
  \/ DriverReturns
  \/ DriverThrows

ClientSpec == ClientInit /\ [][ClientNext]_vars

\* ---- bootstrap: the client's idempotent operations ----------------------------
\* what a call of the arangojs driver does: it returns, or it throws
DriverOutcomes ==
  {[kind |-> "driver-result"]} \cup {[kind |-> "driver-error", thrown |-> e] : e \in DriverThrowables}

CollectionInfo == [t |-> "object", o |-> [name |-> "osm_features", status |-> 3, type |-> 2]]
Null == [t |-> "null"]

\* ensureDatabase (lines 319-328)
ensureDatabase(outcome) ==
  IF outcome.kind = "driver-result" THEN Fulfils(Undef)
  ELSE IF getStatusCode(outcome.thrown) = Num(409) THEN Fulfils(Undef)
  ELSE Rejects(toArangoApiError(outcome.thrown, <<Lit("Failed to create database")>>))

ensureCollectionRethrows(outcome) ==
  IF outcome.kind = "driver-result" THEN Fulfils(Undef)
  ELSE Rejects(toArangoApiError(outcome.thrown, <<Lit("Failed to create collection")>>))

\* ensureCollection (lines 330-339)
ensureCollection(outcome) ==
  IF outcome.kind = "driver-result" THEN Fulfils(Undef)
  ELSE IF getStatusCode(outcome.thrown) = Num(409) THEN Fulfils(Undef)
  ELSE Rejects(toArangoApiError(outcome.thrown, <<Lit("Failed to create collection")>>))

\* getCollectionInfo (lines 341-351)
getCollectionInfo(outcome) ==
  IF outcome.kind = "driver-result" THEN Fulfils(CollectionInfo)
  ELSE IF getStatusCode(outcome.thrown) = Num(404) THEN Fulfils(Null)
  ELSE Rejects(toArangoApiError(outcome.thrown, <<Lit("Failed to load collection info")>>))

\* ensureGeoIndex (lines 353-373)
ensureGeoIndex(outcome) ==
  IF outcome.kind = "driver-result" THEN Fulfils(Undef)
  ELSE IF getStatusCode(outcome.thrown) = Num(409) THEN Fulfils(Undef)
  ELSE Rejects(toArangoApiError(outcome.thrown, <<Lit("Failed to create geo index on")>>))

\* ensurePersistentIndex (lines 375-396)
ensurePersistentIndex(outcome) ==
  IF outcome.kind = "driver-result" THEN Fulfils(Undef)
  ELSE IF getStatusCode(outcome.thrown) = Num(409) THEN Fulfils(Undef)
  ELSE Rejects(toArangoApiError(outcome.thrown, <<Lit("Failed to create persistent index on")>>))

\* BootstrapOptions.indexes, "unset" when the option is not given
Indexes == {"unset", "all", "none", "geo", "tags"}

\* bootstrapArango (bootstrap.ts 13-52): the operations it awaits, in order
BootstrapPlan(indexes) ==
  LET ix == IF indexes = "unset" THEN "all" ELSE indexes
      base == <<[op |-> "ensureDatabase", name |-> "osm"],
                [op |-> "ensureCollection", name |-> "osm_features"]>>
  IN IF ix = "none" THEN base
     ELSE base
          \o (IF ix \in {"geo", "all"}
                THEN <<[op |-> "ensureGeoIndex", name |-> "geometry_geo"]>> ELSE <<>>)
          \o (IF ix \in {"tags", "all"}
                THEN <<[op |-> "ensurePersistentIndex", name |-> "tagsKeys_arr"],
                       [op |-> "ensurePersistentIndex", name |-> "tagsKV_arr"]>>
                ELSE <<>>)

ResultOf(op, outcome) ==
  IF op = "ensureDatabase" THEN ensureDatabase(outcome)
  ELSE IF op = "ensureCollection" THEN ensureCollection(outcome)
  ELSE IF op = "ensureGeoIndex" THEN ensureGeoIndex(outcome)
  ELSE ensurePersistentIndex(outcome)

\* bootstrapArango is called on a store of which nothing is known; request
\* lists the operations called so far, reply what the driver did in each,
\* importCall and settled are the last operation and its result
BootstrapInit ==
  /\ Detached("bootstrap")
  /\ ReaderIdle
  /\ conn \in [indexes : Indexes]
  /\ importCall = "none"
  /\ request = <<>>
  /\ reply = <<>>
  /\ settled = "none"

\* one awaited operation of bootstrapArango; a rejection ends bootstrapArango
BootstrapStep ==
  /\ pc = "bootstrap"
  /\ LET plan == BootstrapPlan(conn.indexes)
         call == plan[Len(request) + 1]
     IN /\ importCall' = call.op
        /\ request' = Append(request, call)
        /\ \E outcome \in DriverOutcomes :
             /\ reply' = Append(reply, outcome)
             /\ settled' = ResultOf(call.op, outcome)
             /\ pc' = IF ~ResultOf(call.op, outcome).ok THEN "bootstrap-failed"
                      ELSE IF Len(request) + 1 = Len(plan) THEN "bootstrap-done"
                      ELSE "bootstrap"
  /\ UNCHANGED <<notClient, conn>>

\* import.ts 101-104: importOsm asks for the collection, bootstrapped or not
GetCollectionInfo ==
  /\ \/ pc = "bootstrap" /\ request = <<>>
     \/ pc = "bootstrap-done"
  /\ importCall' = "getCollectionInfo"
  /\ request' = Append(request, [op |-> "getCollectionInfo", name |-> "osm_features"])
  /\ \E outcome \in DriverOutcomes :
       /\ reply' = Append(reply, outcome)
       /\ settled' = getCollectionInfo(outcome)
  /\ pc' = "info-settled"
  /\ UNCHANGED <<notClient, conn>>

BootstrapNext ==
  \/ BootstrapStep
  \/ GetCollectionInfo

BootstrapSpec == BootstrapInit /\ [][BootstrapNext]_vars

\* ---- what the claims are stated over -----------------------------------------
Unsettled == {u \in 1..Len(uploads) : uploads[u].status = "pending"}

Rejected == {u \in 1..Len(uploads) : uploads[u].status = "rejected"}

Fulfilled == {u \in 1..Len(uploads) : uploads[u].status = "fulfilled"}

RECURSIVE DispatchedDocs(_)
DispatchedDocs(ups) ==
  IF ups = <<>> THEN <<>> ELSE ups[1].docs \o DispatchedDocs(Tail(ups))

\* a field of a TransportResult, a missing one counting as 0
Reported(res, field) == IF res[field] = Missing THEN 0 ELSE res[field]

RECURSIVE ReportedSum(_, _)
ReportedSum(ups, field) ==
  IF ups = <<>> THEN 0
  ELSE (IF ups[1].status = "fulfilled" THEN Reported(ups[1].res, field) ELSE 0)
       + ReportedSum(Tail(ups), field)

Emits == sinkCount' = sinkCount + 1

\* ---- C1 -------------------------------------------------------------------------
\* C1: if any dispatched upload fails (its importDocuments call rejects), importOsm
\* fails and never returns an ImportSummary, whatever the concurrency limit and
\* whenever the failure settles.
C1_FailedUploadFailsRun == pc = "returned" => Rejected = {}

\* ---- C2 -------------------------------------------------------------------------
\* C2: the number of uploads dispatched and not yet settled never exceeds the
\* concurrency limit, an upload is started only while the in-flight set holds
\* fewer entries than the limit, and no snapshot reports inFlight above the limit.
C2_InFlightBounded ==
  /\ [](/\ Cardinality(Unsettled) <= opts.concurrency
        /\ Cardinality(inFlight) <= opts.concurrency
        /\ sinkLast.inFlight <= opts.concurrency)
  /\ [][Len(uploads') > Len(uploads) => Cardinality(inFlight) < opts.concurrency]_vars

C2_AtLimit ==
  /\ opts.concurrency = 2
  /\ Cardinality(Unsettled) = 2
  /\ pc = "race"

\* ---- C3 -------------------------------------------------------------------------
\* C3: on a non-dry run that returns a summary, the document lists of the
\* transport calls, concatenated in dispatch order, are exactly the documents
\* that survived parsing and filtering, in input order; no document is sent twice.
C3_DispatchedIsPushed ==
  (pc = "returned" /\ ~opts.dryRun) =>
    /\ DispatchedDocs(uploads) = pushed
    /\ \A i, j \in 1..Len(pushed) : pushed[i].key = pushed[j].key => i = j
    /\ \A u \in 1..Len(uploads) : uploads[u].docs # <<>>

C3_TwoBatchesReturned ==
  /\ pc = "returned"
  /\ ~opts.dryRun
  /\ Len(uploads) = 2
  /\ Len(pushed) = 2

\* ---- C4 -------------------------------------------------------------------------
\* C4: when a run returns a summary, created, updated, ignored and empty are the
\* sums of those fields over the results of all dispatched batches (a missing
\* field counts 0), whatever the order in which the uploads completed.
C4_CountersAreSums ==
  pc = "returned" =>
    /\ summary[1].created = ReportedSum(uploads, "created")
    /\ summary[1].updated = ReportedSum(uploads, "updated")
    /\ summary[1].ignored = ReportedSum(uploads, "ignored")
    /\ summary[1].empty = ReportedSum(uploads, "empty")

C4_OutOfOrderCompletion ==
  /\ pc = "returned"
  /\ settleOrder = <<2, 1>>
  /\ uploads[1].res # uploads[2].res
  /\ uploads[2].res.created = Missing

\* ---- C5 -------------------------------------------------------------------------
\* C5: when every upload resolves but their errors fields sum to more than zero,
\* importOsm fails, after all uploads have settled and the done snapshot was
\* emitted; every summary importOsm returns has errors = 0.
C5_ImportErrorsAreFatal ==
  /\ pc = "returned" =>
       /\ summary[1].errors = 0
       /\ ReportedSum(uploads, "errors") = 0
  /\ failure = "import-errors" =>
       /\ pc = "failed"
       /\ summary = <<>>
       /\ ReportedSum(uploads, "errors") > 0
       /\ Unsettled = {}
       /\ deps.onProgress => sinkLast.phase = "done"

C5_FailedOnErrors ==
  /\ failure = "import-errors"
  /\ Len(uploads) = 2
  /\ Fulfilled = {1, 2}
  /\ deps.onProgress

\* ---- C6 -------------------------------------------------------------------------
PhaseRank(phase) ==
  CASE phase = "none" -> 0
    [] phase = "reading" -> 1
    [] phase = "importing" -> 2
    [] phase = "finalizing" -> 3
    [] phase = "done" -> 4

\* C6: the finalizing snapshot is emitted only once the input is exhausted and
\* the last open batch has been dispatched (nothing is read, pushed or
\* dispatched after it); the done snapshot is emitted only once every dispatched
\* upload has settled and folded its result: it reports inFlight = 0 and the
\* final counters, and no upload completes after it.
C6_EndOfRunOrdering ==
  /\ [](sinkLast.phase = "done" =>
          /\ Unsettled = {}
          /\ inFlight = {}
          /\ sinkLast.inFlight = 0
          /\ sinkLast.seen = seen
          /\ sinkLast.created = created /\ created = ReportedSum(uploads, "created")
          /\ sinkLast.updated = updated /\ updated = ReportedSum(uploads, "updated")
          /\ sinkLast.ignored = ignored /\ ignored = ReportedSum(uploads, "ignored")
          /\ sinkLast.empty = empty /\ empty = ReportedSum(uploads, "empty")
          /\ sinkLast.errors = errors /\ errors = ReportedSum(uploads, "errors"))
  /\ [][(Emits /\ sinkLast'.phase = "finalizing") =>
          /\ docs' = <<>>
          /\ ~opts.dryRun => DispatchedDocs(uploads') = pushed']_vars
  /\ [][("finalizing" \in sinkPhases) =>
          /\ consumed' = consumed
          /\ record' = record
          /\ pushed' = pushed
          /\ Len(uploads') = Len(uploads)]_vars

C6_DoneAfterTwoUploads ==
  /\ sinkLast.phase = "done"
  /\ pc = "returned"
  /\ Len(uploads) = 2

\* ---- C7 -------------------------------------------------------------------------
\* C7: the phases delivered to the sink are monotonic in the order reading,
\* importing, finalizing, done: after a snapshot with a later phase none with an
\* earlier phase is emitted.
C7_PhasesMonotonic ==
  [][Emits => PhaseRank(sinkLast'.phase) >= PhaseRank(sinkLast.phase)]_vars

\* C7 as amended: the first snapshot is a reading one, no reading snapshot is
\* emitted after the finalizing one, finalizing is emitted once and before done,
\* and nothing is emitted after done; importing snapshots interleave with the
\* reading ones and may follow the finalizing one.
C7_ForcedPhasesOrdered ==
  [][Emits =>
       /\ "done" \notin sinkPhases
       /\ sinkCount = 0 => sinkLast'.phase = "reading"
       /\ sinkLast'.phase = "reading" => "finalizing" \notin sinkPhases
       /\ sinkLast'.phase = "finalizing" => "finalizing" \notin sinkPhases
       /\ sinkLast'.phase = "done" => "finalizing" \in sinkPhases]_vars

C7_AllPhasesEmitted ==
  /\ sinkPhases = {"reading", "importing", "finalizing", "done"}
  /\ sinkLast.phase = "done"

\* ---- C8 -------------------------------------------------------------------------
EntersReading == pc = "start" /\ pc' \in {"reading", "spawn"}

EntersImporting == Fulfilled = {} /\ Fulfilled' # {}

EntersFinalizing == pc # "awaitAll" /\ pc' = "awaitAll"

EntersDone == pc = "awaitAll" /\ (pc' = "returned" \/ failure' = "import-errors")

C9_Throttling ==
  /\ [](/\ lastProgressAt = sinkLast.t
        /\ ~deps.onProgress => (sinkCount = 0 /\ ~clockRead))
  /\ [][/\ clock' >= clock
        /\ Emits =>
             /\ sinkLast'.force <=>
                  (sinkCount = 0 \/ sinkLast'.phase \in {"finalizing", "done"})
             /\ ~sinkLast'.force =>
                  sinkLast'.t - sinkLast.t >= deps.progressIntervalMs
        /\ ~Emits => (lastProgressAt' = lastProgressAt /\ sinkLast' = sinkLast)]_vars

C9_EmittedThenSuppressed ==
  /\ deps.onProgress
  /\ sinkCount >= 2
  /\ ~sinkLast.force
  /\ sinkLast.phase = "reading"
  /\ seen > sinkLast.seen

\* ---- C10 ------------------------------------------------------------------------
UnsupportedSeen ==
  unsupportedGeometryTypeCounts["Point"]
    + unsupportedGeometryTypeCounts["GeometryCollection"]

\* C10: with unsupportedGeometry = 'error' the first record that passes the
\* profile filter and has an unsupported geometry type makes importOsm fail; no
\* upload is started once it was read and the documents held in the open batch
\* are never dispatched.
C10_ErrorModeFailsFast ==
  /\ [](opts.unsupportedGeometry = "error" =>
          /\ UnsupportedSeen <= 1
          /\ UnsupportedSeen = 1 <=> failure = "unsupported-geometry")
  /\ [](failure = "unsupported-geometry" =>
          /\ pc = "failed"
          /\ summary = <<>>
          /\ ~opts.dryRun => DispatchedDocs(uploads) \o docs = pushed)
  /\ [][failure' = "unsupported-geometry" =>
          /\ Len(uploads') = Len(uploads)
          /\ docs' = docs]_vars

C10_FailedBeforeAnyUpload ==
  /\ failure = "unsupported-geometry"
  /\ ~opts.dryRun
  /\ Len(docs) = 1
  /\ uploads = <<>>

\* ---- the input, as the claims about records read it --------------------------
\* lines that reached trackAndMaybeSkip
Documents == {i \in 1..Len(input) : input[i].kind = "document"}

\* documents the profile filter accepts
Passing ==
  {i \in Documents : shouldImportFeatureForProfile(input[i].tags, opts.profile)}

\* documents the profile filter drops
Filtered == Documents \ Passing

\* documents that pass the profile filter and have an unsupported geometry type
Unsupported ==
  {i \in Passing : ~isArangoSupportedGeoJsonGeometryType(input[i].type)}

KeysOf(seq) == {seq[i].key : i \in 1..Len(seq)}

\* the records that were handed to importDocuments or wait in the open batch
SentKeys == KeysOf(DispatchedDocs(uploads) \o docs)

RecordsOf(S) == {input[i].record : i \in S}

\* ---- C11 ------------------------------------------------------------------------
\* C11: with unsupportedGeometry = 'skip' every record that passes the profile
\* filter and has an unsupported geometry type is counted once in
\* skippedUnsupportedGeometry and is in no batch, dispatched or open, while it
\* still counts in seen and in geometryTypeCounts of its type.
C11_SkipDropsUnsupported ==
  opts.unsupportedGeometry = "skip" =>
    /\ skippedUnsupportedGeometry = Cardinality(Unsupported)
    /\ RecordsOf(Unsupported) \cap (SentKeys \cup KeysOf(pushed)) = {}
    /\ seen = Cardinality(Documents)
    /\ \A g \in GeometryTypes :
         geometryTypeCounts[g] = Cardinality({i \in Documents : input[i].type = g})

\* a Point and a GeometryCollection, both passing the filter: seen = 2, one
\* document uploaded, one skipped
C11_PointAndCollection ==
  /\ opts.unsupportedGeometry = "skip"
  /\ pc = "returned"
  /\ Len(input) = 2
  /\ Passing = {1, 2}
  /\ {input[1].type, input[2].type} = {"Point", "GeometryCollection"}
  /\ summary[1].seen = 2
  /\ summary[1].skippedUnsupportedGeometry = 1
  /\ summary[1].created = 1
  /\ summary[1].geometryTypeCounts = [g \in GeometryTypes |-> 1]
  /\ Len(DispatchedDocs(uploads)) = 1

\* ---- C12 ------------------------------------------------------------------------
\* the documents of the given lines, as pushDoc receives them
RECURSIVE DocsOfLines(_, _)
DocsOfLines(lines, S) ==
  IF lines = <<>> THEN <<>>
  ELSE LET n == Len(lines)
           front == DocsOfLines(SubSeq(lines, 1, n - 1), S)
       IN IF n \in S
            THEN Append(front, [key |-> lines[n].record, type |-> lines[n].type])
            ELSE front

\* C12: with unsupportedGeometry = 'keep' every record that passes the profile
\* filter and has an unsupported type is counted in
\* unsupportedGeometryTypeCounts of its type, is pushed into the chunker like a
\* supported one (and is uploaded by a run that returns), and
\* skippedUnsupportedGeometry stays 0.
C12_KeepPushesUnsupported ==
  opts.unsupportedGeometry = "keep" =>
    /\ skippedUnsupportedGeometry = 0
    /\ \A g \in GeometryTypes :
         unsupportedGeometryTypeCounts[g]
           = Cardinality({i \in Unsupported : input[i].type = g})
    /\ pushed = DocsOfLines(input, Passing)
    /\ ~opts.dryRun => DispatchedDocs(uploads) \o docs = pushed
    /\ (pc = "returned" /\ ~opts.dryRun) =>
         RecordsOf(Unsupported) \subseteq KeysOf(DispatchedDocs(uploads))

\* a kept GeometryCollection was uploaded and the run returned
C12_KeptAndUploaded ==
  /\ opts.unsupportedGeometry = "keep"
  /\ pc = "returned"
  /\ Unsupported # {}
  /\ \E u \in Fulfilled :
       \E j \in 1..Len(uploads[u].docs) : uploads[u].docs[j].type = "GeometryCollection"
  /\ summary[1].unsupportedGeometryTypeCounts["GeometryCollection"] >= 1

\* ---- C13 ------------------------------------------------------------------------
\* C13: a record the profile filter drops is counted in skippedByProfile and in
\* seen, is never pushed or uploaded, and is not classified by the
\* unsupported-geometry policy: unsupportedGeometryTypeCounts and
\* skippedUnsupportedGeometry count passing records only, and the run fails
\* under policy 'error' only when a passing record had an unsupported type.
C13_FilteredIsNotClassified ==
  /\ skippedByProfile = Cardinality(Filtered)
  /\ seen = Cardinality(Documents)
  /\ RecordsOf(Filtered) \cap (SentKeys \cup KeysOf(pushed)) = {}
  /\ \A g \in GeometryTypes :
       unsupportedGeometryTypeCounts[g]
         = Cardinality({i \in Unsupported : input[i].type = g})
  /\ skippedUnsupportedGeometry <= Cardinality(Unsupported)
  /\ failure = "unsupported-geometry" => Unsupported # {}

\* under policy 'error' a filtered-out GeometryCollection was read and the run
\* returned
C13_FilteredUnsupportedUnderError ==
  /\ opts.unsupportedGeometry = "error"
  /\ pc = "returned"
  /\ \E i \in Filtered : input[i].type = "GeometryCollection"
  /\ summary[1].skippedByProfile >= 1
  /\ summary[1].skippedUnsupportedGeometry = 0

\* ---- C14 ------------------------------------------------------------------------
\* non-blank lines JSON.parse rejected
Invalid == {i \in 1..Len(input) : input[i].kind = "invalid-json"}

\* the unterminated tail of osmium's output (never parsed)
Partial == {i \in 1..Len(input) : input[i].kind = "partial"}

ReadsInvalidLine ==
  /\ Len(input') = Len(input) + 1
  /\ input'[Len(input')].kind = "invalid-json"

\* C14: with invalidJson = 'error' the first line that does not parse makes
\* importOsm fail, and after it no line is processed and no upload is started;
\* with invalidJson = 'skip' such a line adds one to skippedInvalidJsonLines,
\* leaves seen alone, is never pushed or uploaded, and the loop goes on reading.
C14_InvalidJsonPolicy ==
  /\ [](opts.invalidJson = "error" =>
          /\ (failure = "invalid-json") <=> (Invalid # {})
          /\ Invalid \subseteq {Len(input)})
  /\ [][failure = "invalid-json" =>
          /\ input' = input
          /\ pushed' = pushed
          /\ Len(uploads') = Len(uploads)
          /\ failure' = failure
          /\ pc' = "failed"]_vars
  /\ [](opts.invalidJson = "skip" =>
          /\ skippedInvalidJsonLines = Cardinality(Invalid \cup Partial)
          /\ seen = Cardinality(Documents)
          /\ RecordsOf(Invalid) \cap (SentKeys \cup KeysOf(pushed)) = {}
          /\ failure # "invalid-json")
  /\ [][(opts.invalidJson = "skip" /\ ReadsInvalidLine) =>
          /\ skippedInvalidJsonLines' = skippedInvalidJsonLines + 1
          /\ seen' = seen
          /\ pushed' = pushed
          /\ uploads' = uploads
          /\ pc' = "reading"]_vars

\* under 'skip' an unparseable line was followed by a document that was
\* uploaded, and the run returned
C14_SkippedThenUploaded ==
  /\ opts.invalidJson = "skip"
  /\ pc = "returned"
  /\ Len(input) = 2
  /\ input[1].kind = "invalid-json"
  /\ input[2].kind = "document"
  /\ KeysOf(DispatchedDocs(uploads)) = {input[2].record}
  /\ summary[1].skippedInvalidJsonLines = 1
  /\ summary[1].seen = 1

\* ---- C15 ------------------------------------------------------------------------
\* C15: once a run has hit a fatal condition (a malformed record or an
\* unsupported geometry under policy 'error', a failed upload, a failed
\* conversion process) no further upload is started and importOsm never returns
\* an ImportSummary; uploads already in flight may still settle.
\* (a failed upload is counted from the moment its rejection was handled, that
\* is once the callback of line 176 removed it from inFlight).
C15_NothingStartsAfterFatal ==
  [][(failure # "none" \/ Rejected \ inFlight # {}) =>
       /\ Len(uploads') = Len(uploads)
       /\ pc' # "returned"
       /\ summary' = <<>>]_vars

\* the same for the fatal conditions the orchestrator has noticed
C15_NothingStartsAfterFailure ==
  [][failure # "none" =>
       /\ Len(uploads') = Len(uploads)
       /\ failure' = failure
       /\ pc' = "failed"
       /\ summary' = <<>>]_vars

\* an upload folded its counts after the run had failed
C15_FoldedAfterFailure ==
  /\ failure \in {"invalid-json", "unsupported-geometry", "osmium-oom", "osmium-exit",
                  "upload-failed"}
  /\ Fulfilled # {}
  /\ settleOrder # <<>>
  /\ created + updated > 0

\* ---- the chunker's batches, as the claims about them read them -----------------
\* the documents of the i-th batch handed out, as its holder sees them now
BatchAt(i) == IF returned[i].ref = "docs" THEN docs ELSE returned[i].batch

\* the estimated size push used for the document of the k-th push
SizeOf(k) == DocBytes(calls[k].doc, calls[k].estimatedBytes)

RECURSIVE BatchBytes(_)
BatchBytes(batch) ==
  IF batch = <<>> THEN 0 ELSE SizeOf(batch[1].key) + BatchBytes(Tail(batch))

\* within maxBytes, or one document that is larger than maxBytes by itself
WithinBound(batch) ==
  \/ BatchBytes(batch) <= opts.chunkBytes
  \/ Len(batch) = 1 /\ SizeOf(batch[1].key) > opts.chunkBytes

RECURSIVE ReturnedDocs(_)
ReturnedDocs(n) == IF n = 0 THEN <<>> ELSE ReturnedDocs(n - 1) \o BatchAt(n)

PushedDocs == [k \in 1..Len(calls) |-> calls[k].doc]

Oversize == {k \in 1..Len(calls) : SizeOf(k) > opts.chunkBytes}

\* ---- C16 ------------------------------------------------------------------------
\* C16: after any sequence of push and flush calls every batch that was returned,
\* and the open batch, has a total estimated size of at most maxBytes, unless it
\* holds exactly one document whose own estimated size exceeds maxBytes.
C16_BatchesWithinMaxBytes ==
  /\ \A i \in 1..Len(returned) : WithinBound(BatchAt(i))
  /\ WithinBound(docs)
  /\ bytes = BatchBytes(docs)

\* a batch of two documents that fills maxBytes exactly and a batch of one
\* oversize document were both returned
C16_FullAndOversizeReturned ==
  /\ \E i \in 1..Len(returned) :
       Len(BatchAt(i)) = 2 /\ BatchBytes(BatchAt(i)) = opts.chunkBytes
  /\ \E i \in 1..Len(returned) :
       Len(BatchAt(i)) = 1 /\ BatchBytes(BatchAt(i)) > opts.chunkBytes

\* ---- C17 ------------------------------------------------------------------------
\* C17: the batches returned by push and flush, concatenated in the order they
\* were returned and followed by the open batch, are the pushed documents in
\* push order (so after a final flush the returned batches alone are); every
\* pushed document is in exactly one batch, and a batch that was returned is
\* not changed by later calls.
C17_Conservation ==
  /\ [](ReturnedDocs(Len(returned)) \o docs = PushedDocs)
  /\ [](docs = <<>> => ReturnedDocs(Len(returned)) = PushedDocs)
  /\ [](\A k \in 1..Len(calls) :
          Cardinality({i \in 1..Len(returned) :
                         \E j \in 1..Len(BatchAt(i)) : BatchAt(i)[j] = calls[k].doc})
            + (IF \E j \in 1..Len(docs) : docs[j] = calls[k].doc THEN 1 ELSE 0) = 1)
  /\ [][\A i \in 1..Len(returned) :
          /\ i <= Len(returned')
          /\ BatchAt(i)' = BatchAt(i)]_vars

\* all pushes made, a batch returned by push and the rest by a final flush
C17_PushedThenFlushed ==
  /\ pc = "chunker"
  /\ Len(calls) = MaxPushes
  /\ docs = <<>>
  /\ Len(returned) >= 2
  /\ returned[1].by = "push"
  /\ returned[Len(returned)].by = "flush"
  /\ Len(BatchAt(Len(returned))) >= 2

\* ---- C18 ------------------------------------------------------------------------
IsPush == Len(calls') = Len(calls) + 1

\* C18: push(doc, size) returns a batch exactly when the open batch is not empty
\* and open total + size > maxBytes; the returned batch is the open batch as it
\* was, and doc alone is the new open batch.  Otherwise (the sum is at most
\* maxBytes, or nothing is open) doc is appended and nothing is returned.
C18_PushTrigger ==
  [][IsPush =>
       LET doc == calls'[Len(calls')].doc
           size == DocBytes(doc, calls'[Len(calls')].estimatedBytes)
       IN IF docs # <<>> /\ BatchBytes(docs) + size > opts.chunkBytes
            THEN /\ Len(returned') = Len(returned) + 1
                 /\ returned'[Len(returned')].batch = docs
                 /\ returned'[Len(returned')].by = "push"
                 /\ SubSeq(returned', 1, Len(returned)) = returned
                 /\ docs' = <<doc>>
            ELSE /\ returned' = returned
                 /\ docs' = Append(docs, doc)]_vars

\* a push made the open batch reach maxBytes exactly and returned nothing
C18_ExactlyFull ==
  /\ pc = "chunker"
  /\ Len(docs) = 2
  /\ BatchBytes(docs) = opts.chunkBytes
  /\ returned = <<>>

\* ---- C19 ------------------------------------------------------------------------
\* C19: a document whose own estimated size exceeds maxBytes is accepted and
\* never shares a batch: it is the only document of the open batch, or of a
\* batch that was returned, whatever was pushed before or after it.
C19_OversizeAlone ==
  \A k \in Oversize :
    \/ docs = <<calls[k].doc>>
    \/ \E i \in 1..Len(returned) : BatchAt(i) = <<calls[k].doc>>

\* an oversize document pushed between two others was returned alone
C19_OversizeInTheMiddle ==
  /\ pc = "chunker"
  /\ Len(calls) = 3
  /\ Oversize = {2}
  /\ \E i \in 1..Len(returned) : BatchAt(i) = <<calls[2].doc>>
  /\ docs = <<calls[3].doc>>

\* ---- C20 ------------------------------------------------------------------------
\* every push so far was given the computed size as its estimate
AllComputed ==
  \A k \in 1..Len(calls) : calls[k].estimatedBytes = Estimate(ComputedBytes(calls[k].doc))

\* C20: a chunker that is given estimatedBytes equal to the computed size
\* (serialized length + 1) with every push and one that is given no estimate,
\* with the same maxBytes and the same documents, return the same batches at
\* the same push indexes (and hold the same open batch).
C20_ComputedEstimateIsNeutral ==
  AllComputed =>
    /\ returned = twin.returned
    /\ docs = twin.docs
    /\ bytes = twin.bytes

\* three pushes with computed estimates, of which one closed a batch and one
\* did not
C20_ComputedEstimatesUsed ==
  /\ pc = "chunker"
  /\ AllComputed
  /\ Len(calls) = 3
  /\ Len(returned) = 1
  /\ returned[1].by = "push"
  /\ \E i \in 1..Len(returned) : Len(returned[i].batch) = 2

\* ---- C21 ------------------------------------------------------------------------
\* lastFlush is what the latest call returned when that call was flush()
IsFlush == calls' = calls /\ lastFlush' # "not-called"

\* C21: flush() returns the open batch and leaves the chunker empty with bytes
\* reset to 0; it returns nothing exactly when nothing is open, so a flush right
\* after a flush returns nothing; no batch returned by push or flush is empty.
C21_FlushEmptiesTheChunker ==
  /\ [](lastFlush # "not-called" => docs = <<>> /\ bytes = 0)
  /\ [](\A i \in 1..Len(returned) : Len(BatchAt(i)) > 0)
  /\ [][IsFlush =>
          /\ (lastFlush' = "undefined") <=> (docs = <<>>)
          /\ IF docs = <<>>
               THEN returned' = returned
               ELSE /\ Len(returned') = Len(returned) + 1
                    /\ returned'[Len(returned')].batch = docs
                    /\ returned'[Len(returned')].by = "flush"
          /\ lastFlush # "not-called" => lastFlush' = "undefined"]_vars

\* a flush returned a batch of two documents and the flush after it nothing
C21_FlushTwice ==
  /\ pc = "chunker"
  /\ lastFlush = "undefined"
  /\ Len(returned) = 1
  /\ returned[1].by = "flush"
  /\ Len(returned[1].batch) = 2
  /\ returned[1].at = Len(calls)

\* ---- the line reader's claims ------------------------------------------------
\* The input as the claims describe it: the lines that a newline ends, in
\* order, and the segment after the last newline.
NLPositions(s) == {i \in DOMAIN s : s[i] = NL}
NthNL(s, k) == CHOOSE i \in NLPositions(s) : Cardinality({j \in NLPositions(s) : j <= i}) = k
TerminatedLines(s) ==
  [k \in 1..Cardinality(NLPositions(s)) |->
     SubSeq(s, IF k = 1 THEN 1 ELSE NthNL(s, k - 1) + 1, NthNL(s, k) - 1)]
TrailingSegment(s) ==
  SubSeq(s, (IF NLPositions(s) = {} THEN 0 ELSE NthNL(s, Cardinality(NLPositions(s)))) + 1,
         Len(s))

OverLimit(seg) == Limited(readOpts) /\ Len(seg) > readOpts.maxLineBytes
KeptTerminated == SelectSeq(TerminatedLines(stream), LAMBDA l : ~OverLimit(l))
TrailingKept ==
  /\ Len(TrailingSegment(stream)) > 0
  /\ readOpts.flushFinalPartialLine
  /\ ~OverLimit(TrailingSegment(stream))
KeptSegments == KeptTerminated \o (IF TrailingKept THEN <<TrailingSegment(stream)>> ELSE <<>>)

\* the input without the lines and the trailing segment the reader drops
Remainder ==
  Concat([i \in 1..Len(KeptTerminated) |-> KeptTerminated[i] \o <<NL>>])
    \o (IF TrailingKept THEN TrailingSegment(stream) ELSE <<>>)

Yields == SelectSeq(out, LAMBDA e : e.event = "yield")
YieldedLines == [i \in 1..Len(Yields) |-> Yields[i].line]
TooLongCalls == SelectSeq(out, LAMBDA e : e.event = "onTooLongLine")
FinalPartialCalls == SelectSeq(out, LAMBDA e : e.event = "onFinalPartialLine")

\* the yielded lines as bytes, a newline after each but a yielded trailing segment
Rejoined ==
  Concat([i \in 1..Len(YieldedLines) |->
            Encode(YieldedLines[i])
              \o (IF i = Len(YieldedLines) /\ TrailingKept THEN <<>> ELSE <<NL>>)])

\* well-formed UTF-8 that does not begin with a byte order mark
RECURSIVE WellFormedFrom(_, _)
WellFormedFrom(b, i) ==
  \/ i > Len(b)
  \/ b[i] \notin {"EF"} \cup Continuation /\ WellFormedFrom(b, i + 1)
  \/ /\ b[i] = "EF"
     /\ i + 2 <= Len(b)
     /\ b[i + 1] \in Continuation
     /\ b[i + 2] \in Continuation
     /\ WellFormedFrom(b, i + 3)
PlainText(b) == WellFormedFrom(b, 1) /\ (Len(b) >= 3 => SubSeq(b, 1, 3) # ByteOrderMark)

\* C22 as stated: when the reader finishes, the yielded lines, a newline put
\* back after each newline-terminated one, are the bytes of the input without
\* the lines dropped as too long and without a trailing segment dropped because
\* flushFinalPartialLine is false, for every input stream.
C22_RoundTripOfEveryStream == rlState = "done" => Rejoined = Remainder

\* C22, amended: the yielded lines are the decoded kept lines, in order; they
\* give back the bytes of the input (less what was dropped) when every kept
\* line is well-formed UTF-8 and does not begin with a byte order mark.  An
\* ill-formed sequence is yielded as U+FFFD and a byte order mark at the start
\* of a line is not yielded.
C22_RoundTripOfText ==
  rlState = "done" =>
    /\ YieldedLines = [i \in 1..Len(KeptSegments) |-> Decode(KeptSegments[i])]
    /\ (\A i \in 1..Len(KeptSegments) : PlainText(KeptSegments[i])) => Rejoined = Remainder
    /\ ~Limited(readOpts) /\ readOpts.flushFinalPartialLine => Remainder = stream

C22_TextRejoined ==
  /\ rlState = "done"
  /\ stream = <<"EF", "BF", "BB", "0A">>
  /\ ~Limited(readOpts)
  /\ "mid-char" \in chunking
  /\ YieldedLines = <<<<<<"EF", "BF", "BB">>>>>>
  /\ Rejoined = stream

\* the same stream handed over as one chunk
WholeRun ==
  LET r == ProcessChunk(readOpts, NewReader, stream, 1)
  IN IF r.rlState = "threw" THEN r ELSE EndOfStream(readOpts, r)

IsPrefix(a, b) == Len(a) <= Len(b) /\ a = SubSeq(b, 1, Len(a))

\* C23: however the chunks divide the stream (inside a line, inside a
\* character, with empty chunks), the reader yields the lines and makes the
\* onTooLongLine / onFinalPartialLine calls, byte counts included, that it
\* makes when the stream arrives as one chunk; while it reads, what it has
\* yielded and called is a prefix of that.
C23_ChunkingDoesNotMatter ==
  /\ rlState \in {"reading", "done", "threw"} => IsPrefix(out, WholeRun.out)
  /\ rlState \in {"done", "threw"} => out = WholeRun.out /\ rlState = WholeRun.rlState

C23_SplitEverywhere ==
  /\ rlState = "done"
  /\ chunking = {"empty", "mid-line", "mid-char"}
  /\ delivered = MaxStreamLen
  /\ Len(TooLongCalls) = 1
  /\ TooLongCalls[1].bytes = 3
  /\ Len(Yields) = 1

\* the call the reader makes, or the line it yields, for a newline-terminated line
OfTerminated(l) ==
  IF OverLimit(l) THEN TooLong(Len(l), readOpts.maxLineBytes) ELSE Yield(Decode(l))

\* C24: with maxLineBytes = M and tooLongLine = 'skip', when the reader
\* finishes, each newline-terminated line of more than M bytes was not yielded
\* and made exactly one onTooLongLine call, with bytes its full length and
\* maxLineBytes M; each line of at most M bytes was yielded; the lines after a
\* dropped one are yielded as usual.
C24_SkipDropsWholeLines ==
  rlState = "done" /\ Limited(readOpts) /\ readOpts.tooLongLine = "skip" =>
    LET ls == TerminatedLines(stream)
    IN /\ Len(out) >= Len(ls)
       /\ \A k \in 1..Len(ls) : out[k] = OfTerminated(ls[k])
       /\ \A k \in 1..Len(TooLongCalls) :
            /\ TooLongCalls[k].bytes > readOpts.maxLineBytes
            /\ TooLongCalls[k].maxLineBytes = readOpts.maxLineBytes
       /\ Len(TooLongCalls) + Len(Yields) <= Len(ls) + 1

C24_LongLineSkippedThenYield ==
  /\ rlState = "done"
  /\ readOpts.maxLineBytes = 1
  /\ readOpts.tooLongLine = "skip"
  /\ "mid-line" \in chunking
  /\ stream = <<"61", "61", "0A", "61">>
  /\ out = <<TooLong(2, 1), Yield(<<<<"61">>>>)>>

\* every segment of the input: the newline-terminated lines, then the trailing one
Segments == TerminatedLines(stream) \o <<TrailingSegment(stream)>>
FirstOverLimit == MinOf({k \in 1..Len(Segments) : OverLimit(Segments[k])})

\* C25: a yielded line is always a whole line of the input, decoded, never the
\* first bytes of a longer one; under tooLongLine = 'error' (the default when
\* maxLineBytes is set) the reader throws exactly when the input holds a line
\* of more than maxLineBytes bytes, having yielded the lines before the first
\* such line and nothing else, and it makes no onTooLongLine call.
C25_NoTruncatedLine ==
  /\ IsPrefix(YieldedLines, [i \in 1..Len(KeptSegments) |-> Decode(KeptSegments[i])])
  /\ rlState \in {"done", "threw"} /\ Limited(readOpts) /\ readOpts.tooLongLine = "error" =>
       /\ rlState = "threw" <=> \E k \in 1..Len(Segments) : OverLimit(Segments[k])
       /\ rlState = "threw" =>
            out = [k \in 1..(FirstOverLimit - 1) |-> Yield(Decode(Segments[k]))]
       /\ TooLongCalls = <<>>
  /\ rlState = "threw" => Limited(readOpts) /\ readOpts.tooLongLine = "error"

C25_ThrewBeforeTheNextLine ==
  /\ rlState = "threw"
  /\ readOpts.maxLineBytes = 1
  /\ stream = <<"0A", "61", "61", "0A">>
  /\ delivered = Len(stream)
  /\ "mid-line" \in chunking
  /\ out = <<Yield(<<>>)>>

Last(q) == q[Len(q)]

\* C26: when the stream ends with a non-empty segment after the last newline
\* and that segment is within the limit, the reader, once finished, has
\* yielded it as the last line if flushFinalPartialLine is true; otherwise it
\* has yielded nothing for it and has called onFinalPartialLine once, with the
\* segment's byte count.
C26_TrailingSegment ==
  LET t == TrailingSegment(stream)
      before == Len(TerminatedLines(stream))
  IN rlState = "done" /\ Len(t) > 0 /\ ~OverLimit(t) =>
       /\ Len(out) = before + 1
       /\ \A k \in 1..before : out[k].event # "onFinalPartialLine"
       /\ IF readOpts.flushFinalPartialLine
            THEN /\ Last(out) = Yield(Decode(t))
                 /\ FinalPartialCalls = <<>>
            ELSE /\ Last(out) = FinalPartial(Len(t))
                 /\ FinalPartialCalls = <<FinalPartial(Len(t))>>
                 /\ Len(Yields) <= before

C26_PartialLineReported ==
  /\ rlState = "done"
  /\ ~readOpts.flushFinalPartialLine
  /\ stream = <<"61", "0A", "61", "61">>
  /\ "mid-line" \in chunking
  /\ out = <<Yield(<<<<"61">>>>), FinalPartial(2)>>

\* C27: when no byte follows the last newline, or the stream is empty, the
\* reader, once finished, has yielded no line and made no call for the end of
\* the stream: it handed over one thing per newline-terminated line and no
\* onFinalPartialLine call; with no limit set the number of yielded lines is
\* the number of newline bytes.
C27_NothingAfterLastNewline ==
  rlState = "done" /\ TrailingSegment(stream) = <<>> =>
    /\ Len(out) = Cardinality(NLPositions(stream))
    /\ FinalPartialCalls = <<>>
    /\ ~Limited(readOpts) => Len(Yields) = Cardinality(NLPositions(stream))

C27_EndsWithNewline ==
  /\ rlState = "done"
  /\ ~Limited(readOpts)
  /\ stream = <<"61", "0A", "0A", "0A">>
  /\ "empty" \in chunking
  /\ out = <<Yield(<<<<"61">>>>), Yield(<<>>), Yield(<<>>)>>

\* C28: under tooLongLine = 'skip' with maxLineBytes = M, after each chunk the
\* reader retains at most M bytes of the line in progress, and while it is
\* dropping a line it retains none of its bytes, only their count.
C28_BoundedBuffer ==
  Limited(readOpts) /\ readOpts.tooLongLine = "skip" /\ rlState \in {"reading", "done"} =>
    /\ partsBytes <= readOpts.maxLineBytes
    /\ Len(Concat(parts)) = partsBytes
    /\ dropping => parts = <<>> /\ partsBytes = 0 /\ droppedBytes > readOpts.maxLineBytes

C28_DroppingCountsOnly ==
  /\ rlState = "reading"
  /\ readOpts.maxLineBytes = 1
  /\ readOpts.tooLongLine = "skip"
  /\ dropping
  /\ droppedBytes = 3
  /\ parts = <<>>
  /\ delivered = 3
  /\ "mid-line" \in chunking

\* ---- the client's claims -----------------------------------------------------
\* the errorNum a response body carries: that of the JSON object it is, when a number
BodyErrorNum(text) ==
  IF JsonParse(text).ok /\ JsonParse(text).value.kind = "object"
     /\ IsNumber(JsonParse(text).value.errorNum)
    THEN JsonParse(text).value.errorNum
    ELSE Undef

Is2xx(status) == status >= 200 /\ status < 300

\* C29: whatever the transport, when importDocuments rejects it rejects with
\* an ArangoApiError that has a message and a numeric status.  For an HTTP
\* response outside 2xx the status is the response's and errorNum is the
\* numeric errorNum of the JSON body, if it has one; an exception of the
\* client library keeps its numeric code as status and its numeric errorNum;
\* a subprocess that exits with a non-zero code, and any other failure, is
\* mapped too (to status 500 when the failure carries no status).
C29_OnlyArangoApiErrors ==
  pc = "client-settled" /\ ~settled.ok =>
    /\ settled.error.name = "ArangoApiError"
    /\ settled.error.isError
    /\ IsNumber(settled.error.status)
    /\ settled.error.errorNum = Undef \/ IsNumber(settled.error.errorNum)
    /\ reply.kind = "http" /\ ~Is2xx(reply.status) =>
         /\ settled.error.status = Num(reply.status)
         /\ settled.error.errorNum = BodyErrorNum(reply.body)
    /\ reply.kind = "driver-error" /\ reply.thrown.t = "object" =>
         /\ IsNumber(reply.thrown.o.code) => settled.error.status = reply.thrown.o.code
         /\ IsNumber(reply.thrown.o.errorNum) => settled.error.errorNum = reply.thrown.o.errorNum
         /\ reply.thrown.o.isError => settled.error.message = reply.thrown.o.message
    /\ reply.kind \in {"process", "socket-error", "none"} => settled.error.status = Num(500)

C29_NotFoundOverCurl ==
  /\ pc = "client-settled"
  /\ conn.importTransport = "curl"
  /\ reply.kind = "http"
  /\ reply.status = 404
  /\ reply.body = <<Space, ErrorJson(Str(<<Lit("collection not found")>>), Num(1203)), Newline>>
  /\ settled = Rejects(ArangoApiError(<<Lit("collection not found")>>, 404, Num(1203)))

\* C30: for the same connection, collection, documents and onDuplicate, the
\* request importDocumentsViaNodeHttp makes and the one the subprocess of
\* importDocumentsViaCurl makes have the same method, path, query,
\* authorization / accept / content-type headers and body bytes; and for the
\* same reply of the server both settle alike: with the same result on 2xx,
\* with an error of the same status and errorNum otherwise.
C30_TransportsAgree ==
  pc \in {"client-sent", "client-settled"} /\ request.transport \in {"curl", "node-http"} =>
    LET viaCurl == CurlSends(CurlCommand(conn, importCall))
        viaNode == NodeHttpSends(NodeHttpOptions(conn, importCall))
        Compared(hs) == {h \in hs : h.name \in {"authorization", "accept", "content-type"}}
        curlSettled == Caught(CurlSettles(CurlOutput(reply)))
        nodeSettled == Caught(NodeHttpSettles([statusCode |-> reply.status, body |-> reply.body]))
    IN /\ request.transport = "curl" => CurlSends(request.spawn) = viaCurl
       /\ request.transport = "node-http" => NodeHttpSends(request.options) = viaNode
       /\ viaCurl.method = viaNode.method
       /\ viaCurl.pathname = viaNode.pathname
       /\ viaCurl.search = viaNode.search
       /\ Compared(viaCurl.headers) = Compared(viaNode.headers)
       /\ Cardinality(Compared(viaCurl.headers)) = 3
       /\ viaCurl.body = viaNode.body
       /\ pc = "client-settled" /\ reply.kind = "http" =>
            /\ settled = IF request.transport = "curl" THEN curlSettled ELSE nodeSettled
            /\ curlSettled.ok = nodeSettled.ok
            /\ curlSettled.ok <=> Is2xx(reply.status) /\ JsonParse(reply.body).ok
            /\ curlSettled.ok => curlSettled.value = nodeSettled.value
            /\ ~curlSettled.ok =>
                 /\ curlSettled.error.status = nodeSettled.error.status
                 /\ curlSettled.error.errorNum = nodeSettled.error.errorNum

C30_SameResultOverNodeHttp ==
  /\ pc = "client-settled"
  /\ conn.importTransport = "node-http"
  /\ conn.url.pathname = <<"/", "arango", "/">>
  /\ Len(importCall.docs) = MaxDocs
  /\ importCall.onDuplicate # Undef
  /\ reply.kind = "http"
  /\ reply.status = 200
  /\ \E res \in TransportResults :
       /\ reply.body = <<Space, ResultJson(res), Newline>>
       /\ settled = Fulfils(ResultJson(res))
  /\ settled = Caught(CurlSettles(CurlOutput(reply)))

\* the bytes of the lines of a batch: per document its JSON (one byte more for
\* the letter outside ASCII) and the newline
RECURSIVE LinesBytes(_)
LinesBytes(ds) ==
  IF ds = <<>> THEN 0
  ELSE (IF Head(ds) = "a1" THEN 4 ELSE 5) + 1 + LinesBytes(Tail(ds))

\* C31: the request importDocumentsViaNodeHttp makes for a batch of n >= 1
\* documents is a POST to (the base path of the URL, then)
\* /_db/{database}/_api/import with the query collection, type=documents and
\* onDuplicate only when given; its body is n lines, the i-th the JSON of the
\* i-th document followed by a newline; content-length is the byte length of
\* that body.
C31_RawRequestShape ==
  pc \in {"client-sent", "client-settled"} /\ request.transport = "node-http"
    /\ Len(importCall.docs) >= 1 =>
      LET o == request.options
          n == Len(importCall.docs)
          base == conn.url.pathname
          lengths == {i \in 1..Len(o.headers) : o.headers[i].name = "content-length"}
      IN /\ o.method = "POST"
         /\ o.path.pathname.path =
              (IF base[Len(base)] = "/" THEN SubSeq(base, 1, Len(base) - 1) ELSE base)
                \o <<"/", "_db", "/">>
         /\ o.path.pathname.database = encodeURIComponent(conn.database)
         /\ o.path.pathname.rest = <<"/", "_api", "/", "import">>
         /\ LET q == o.path.search
            IN /\ q[1].name = "collection" /\ q[1].value = FormEncode(importCall.collection)
               /\ q[2] = [name |-> "type", value |-> <<Lit("documents")>>]
               /\ IF importCall.onDuplicate = Undef THEN Len(q) = 2
                  ELSE Len(q) = 3 /\ q[3] = [name |-> "onDuplicate",
                                             value |-> importCall.onDuplicate.s]
         /\ Len(o.end) = 2 * n
         /\ \A i \in 1..n : /\ o.end[2 * i - 1] = [kind |-> "object", key |-> importCall.docs[i]]
                            /\ o.end[2 * i] = Newline
         /\ Cardinality(lengths) = 1
         /\ \A i \in lengths : o.headers[i].value = <<NumberJson(LinesBytes(importCall.docs))>>

C31_TwoDocumentsPosted ==
  /\ pc = "client-sent"
  /\ request.transport = "node-http"
  /\ importCall.docs = <<"a-umlaut-2", "a1">>
  /\ importCall.onDuplicate = Undef
  /\ conn.url.pathname = <<"/", "arango">>
  /\ request.options.end = <<[kind |-> "object", key |-> "a-umlaut-2"], Newline,
                             [kind |-> "object", key |-> "a1"], Newline>>
  /\ request.options.headers[4] = Header("content-length", <<NumberJson(11)>>)

\* C39: in skip mode, when the stream ends inside a trailing segment of more
\* than maxLineBytes bytes, the finished reader has called onTooLongLine once
\* for it, with the segment's full byte count, has not called
\* onFinalPartialLine and has yielded nothing for the segment, whether
\* flushFinalPartialLine is true or false.
C39_StreamEndsWhileDropping ==
  LET t == TrailingSegment(stream)
      before == Len(TerminatedLines(stream))
  IN rlState = "done" /\ readOpts.tooLongLine = "skip" /\ OverLimit(t) =>
       /\ Len(out) = before + 1
       /\ Last(out) = TooLong(Len(t), readOpts.maxLineBytes)
       /\ \A k \in 1..before : out[k] = OfTerminated(TerminatedLines(stream)[k])
       /\ FinalPartialCalls = <<>>
       /\ ~dropping /\ droppedBytes = 0

C39_DroppedAtTheEnd ==
  /\ rlState = "done"
  /\ readOpts = [maxLineBytes |-> 1, tooLongLine |-> "skip", flushFinalPartialLine |-> TRUE]
  /\ stream = <<"61", "0A", "61", "61">>
  /\ chunking = {"mid-line"}
  /\ out = <<Yield(<<<<"61">>>>), TooLong(2, 1)>>

\* ---- the orchestrator's claims, continued ------------------------------------
ResolvesAnUpload ==
  \E u \in 1..Len(uploads) : uploads[u].status = "pending" /\ uploads'[u].status = "fulfilled"
ProcessesARecord == Len(input') = Len(input) + 1

\* C33: created, updated, ignored, empty and errors change only in the step
\* in which a pending upload resolves, and that step changes no reader-side
\* counter; seen, the skipped... counters and the geometry type maps change
\* only in a step that processes a line of the input, and that step changes
\* no transport counter and settles no upload; no counter ever decreases.
C33_SummaryFrame ==
  [][/\ transportCounters' # transportCounters =>
          ResolvesAnUpload /\ readerCounters' = readerCounters /\ input' = input
     /\ readerCounters' # readerCounters =>
          /\ ProcessesARecord
          /\ transportCounters' = transportCounters
          /\ \A u \in 1..Len(uploads) : uploads'[u] = uploads[u]
     /\ created' >= created /\ updated' >= updated /\ ignored' >= ignored
     /\ empty' >= empty /\ errors' >= errors
     /\ seen' >= seen
     /\ skippedByProfile' >= skippedByProfile
     /\ skippedUnsupportedGeometry' >= skippedUnsupportedGeometry
     /\ skippedTooLongLines' >= skippedTooLongLines
     /\ skippedInvalidJsonLines' >= skippedInvalidJsonLines
     /\ \A g \in GeometryTypes :
          /\ geometryTypeCounts'[g] >= geometryTypeCounts[g]
          /\ unsupportedGeometryTypeCounts'[g] >= unsupportedGeometryTypeCounts[g]]_vars

C33_BothKindsCounted ==
  /\ created + updated >= 1
  /\ Fulfilled # {}
  /\ seen >= 1
  /\ skippedTooLongLines + skippedInvalidJsonLines + skippedByProfile >= 1

\* C35: while the in-flight set holds as many uploads as the concurrency limit
\* the orchestrator reads no further line and starts no upload, so at most
\* concurrency batches are in flight next to the one open batch of the chunker.
C35_Backpressure ==
  /\ [][Cardinality(inFlight) >= opts.concurrency =>
          /\ input' = input
          /\ consumed' = consumed
          /\ Len(uploads') = Len(uploads)
          /\ \A u \in 1..Len(uploads) : uploads'[u].docs = uploads[u].docs
          /\ docs' = docs]_vars
  /\ [](Cardinality(inFlight) <= opts.concurrency)

C35_BlockedAtLimit ==
  /\ opts.concurrency = 1
  /\ pc = "race"
  /\ Cardinality(inFlight) = 1
  /\ Unsettled = {1}
  /\ Len(input) = 1
  /\ docs = <<>>

RECURSIVE SumOver(_, _)
SumOver(counts, types) ==
  IF types = {} THEN 0
  ELSE LET g == CHOOSE x \in types : TRUE
       IN counts[g] + SumOver(counts, types \ {g})

DocumentLines == {i \in 1..Len(input) : input[i].kind = "document"}
AbortedByGeometry == IF failure = "unsupported-geometry" THEN 1 ELSE 0

\* C38: at every point of a run seen is the number of lines that parsed to a
\* document, so too long, invalid and blank lines are not in it; the
\* geometryTypeCounts add up to seen; and seen = skippedByProfile +
\* skippedUnsupportedGeometry + the number of documents pushed into the
\* chunker, plus one once a document of an unsupported geometry type has
\* aborted the run under the policy 'error' (it is counted, then thrown).
C38_Accounting ==
  /\ seen = skippedByProfile + skippedUnsupportedGeometry + Len(pushed) + AbortedByGeometry
  /\ SumOver(geometryTypeCounts, GeometryTypes) = seen
  /\ seen = Cardinality(DocumentLines)

\* C38 as stated: the sum holds without the aborting document.
C38_AccountingAtEveryPoint ==
  /\ seen = skippedByProfile + skippedUnsupportedGeometry + Len(pushed)
  /\ SumOver(geometryTypeCounts, GeometryTypes) = seen
  /\ seen = Cardinality(DocumentLines)

C38_CountedThenThrown ==
  /\ pc = "failed"
  /\ failure = "unsupported-geometry"
  /\ seen = 2
  /\ Len(pushed) + skippedByProfile = 1
  /\ skippedUnsupportedGeometry = 0

\* the reader-side counters as a function of the lines read and the options
\* that do not depend on dryRun
LinesOfKind(kind) == {i \in 1..Len(input) : input[i].kind = kind}
FilteredOut ==
  {i \in DocumentLines : ~shouldImportFeatureForProfile(input[i].tags, opts.profile)}
UnsupportedKept ==
  {i \in DocumentLines \ FilteredOut : ~isArangoSupportedGeoJsonGeometryType(input[i].type)}
ReaderSideOf(s) ==
  [seen |-> s.seen,
   skippedByProfile |-> s.skippedByProfile,
   skippedUnsupportedGeometry |-> s.skippedUnsupportedGeometry,
   skippedTooLongLines |-> s.skippedTooLongLines,
   skippedInvalidJsonLines |-> s.skippedInvalidJsonLines,
   geometryTypeCounts |-> s.geometryTypeCounts,
   unsupportedGeometryTypeCounts |-> s.unsupportedGeometryTypeCounts]
ReaderSideOfInput ==
  [seen |-> Cardinality(DocumentLines),
   skippedByProfile |-> Cardinality(FilteredOut),
   skippedUnsupportedGeometry |->
     IF opts.unsupportedGeometry = "skip" THEN Cardinality(UnsupportedKept) ELSE 0,
   skippedTooLongLines |-> Cardinality(LinesOfKind("too-long")),
   skippedInvalidJsonLines |->
     Cardinality(LinesOfKind("invalid-json") \cup LinesOfKind("partial")),
   geometryTypeCounts |->
     [g \in GeometryTypes |-> Cardinality({i \in DocumentLines : input[i].type = g})],
   unsupportedGeometryTypeCounts |->
     [g \in GeometryTypes |-> Cardinality({i \in UnsupportedKept : input[i].type = g})]]

\* C40: a dry run creates no store client and never calls the transport; its
\* records are still read, filtered, counted and chunked; the phases reading,
\* finalizing and done are reported and importing is not; its summary has
\* created = updated = ignored = empty = errors = 0 and the reader-side
\* counters that the input determines, which are those of a real run on the
\* same input.
C40_DryRun ==
  /\ opts.dryRun =>
       /\ ~dbClient
       /\ uploads = <<>>
       /\ inFlight = {}
       /\ created = 0 /\ updated = 0 /\ ignored = 0 /\ empty = 0 /\ errors = 0
       /\ "importing" \notin sinkPhases
       /\ Len(pushed) = Cardinality(DocumentLines \ FilteredOut)
                          - (IF opts.unsupportedGeometry = "keep" THEN 0
                             ELSE Cardinality(UnsupportedKept))
       /\ Len(docs) <= Len(pushed)
  /\ pc = "returned" =>
       /\ ReaderSideOf(summary[1]) = ReaderSideOfInput
       /\ opts.dryRun =>
            /\ summary[1].created = 0 /\ summary[1].updated = 0 /\ summary[1].ignored = 0
            /\ summary[1].empty = 0 /\ summary[1].errors = 0
            /\ docs = <<>>
            /\ deps.onProgress => sinkPhases = {"reading", "finalizing", "done"}

C40_DryRunReturned ==
  /\ pc = "returned"
  /\ opts.dryRun
  /\ deps.onProgress
  /\ summary[1].seen = 2
  /\ summary[1].skippedByProfile = 1
  /\ Len(pushed) = 1
  /\ sinkCount >= 3

OsmiumFailures == {"osmium-oom", "osmium-exit"}

\* C34: with the osmium adapter a non-zero exit code of the subprocess fails
\* importOsm once the output has been read to its end (pc = "exited"), with
\* the out-of-memory message for 137; the step dispatches nothing, the batch
\* left open in the chunker stays there and is never dispatched afterwards,
\* no finalizing or done snapshot is reported and no summary is returned,
\* also when every line of the output was a valid document.
C34_OsmiumExitFails ==
  /\ [](failure \in OsmiumFailures =>
          /\ opts.adapter = "osmium-geojsonseq"
          /\ pc = "failed"
          /\ summary = <<>>
          /\ sinkPhases \cap {"finalizing", "done"} = {}
          /\ ~opts.dryRun => DispatchedDocs(uploads) \o docs = pushed)
  /\ [][failure' \in OsmiumFailures =>
          /\ failure \notin OsmiumFailures => pc = "exited"
          /\ Len(uploads') = Len(uploads)
          /\ docs' = docs
          /\ inFlight' \subseteq inFlight]_vars

C34_OpenBatchLeftBehind ==
  /\ failure = "osmium-oom"
  /\ pc = "failed"
  /\ ~opts.dryRun
  /\ Len(input) = 2
  /\ \A i \in 1..Len(input) : input[i].kind = "document"
  /\ Len(pushed) = 2
  /\ Len(docs) >= 1
  /\ Len(uploads) <= 1

\* C36: with a concurrency limit of at least one, an input of finitely many
\* lines and uploads that all settle, importOsm eventually returns its summary
\* or fails, and whenever it waits in enqueueChunk and an upload it waits for
\* has settled it leaves the wait.
C36_Terminates ==
  /\ <>(pc \in {"returned", "failed"})
  /\ (pc = "race" /\ \E u \in waitSet : Settled(u)) ~> (pc # "race")

C36_ReturnedAfterWaiting ==
  /\ pc = "returned"
  /\ opts.concurrency = 1
  /\ Len(uploads) = 2
  /\ settleOrder = <<1, 2>>
  /\ inFlight = {}

EnsureOps == {"ensureDatabase", "ensureCollection", "ensureGeoIndex", "ensurePersistentIndex"}
Threw(outcome) == outcome.kind = "driver-error"
StatusOf(outcome) == getStatusCode(outcome.thrown)
RaisedAsApiError(outcome) ==
  /\ ~settled.ok
  /\ settled.error.name = "ArangoApiError"
  /\ settled.error.status = IF StatusOf(outcome) = Undef THEN Num(500) ELSE StatusOf(outcome)

\* C32: ensureDatabase, ensureCollection, ensureGeoIndex and
\* ensurePersistentIndex succeed when the driver returns and when it throws
\* with status code 409, and bootstrapArango goes on; any other throw is raised
\* as an ArangoApiError and ends bootstrapArango; getCollectionInfo gives the
\* collection when the driver returns, null on status code 404 and an
\* ArangoApiError on any other throw.
C32_BootstrapIdempotent ==
  reply # <<>> =>
    LET outcome == Last(reply)
    IN /\ importCall \in EnsureOps =>
            /\ (~Threw(outcome) \/ StatusOf(outcome) = Num(409)) =>
                 /\ settled = Fulfils(Undef)
                 /\ pc \in {"bootstrap", "bootstrap-done"}
            /\ (Threw(outcome) /\ StatusOf(outcome) # Num(409)) =>
                 /\ RaisedAsApiError(outcome)
                 /\ pc = "bootstrap-failed"
            /\ request = SubSeq(BootstrapPlan(conn.indexes), 1, Len(request))
            /\ pc = "bootstrap-done" <=> (settled.ok /\ request = BootstrapPlan(conn.indexes))
            /\ \A i \in 1..(Len(reply) - 1) :
                 ~Threw(reply[i]) \/ StatusOf(reply[i]) = Num(409)
       /\ importCall = "getCollectionInfo" =>
            /\ pc = "info-settled"
            /\ ~Threw(outcome) => settled = Fulfils(CollectionInfo)
            /\ (Threw(outcome) /\ StatusOf(outcome) = Num(404)) => settled = Fulfils(Null)
            /\ (Threw(outcome) /\ StatusOf(outcome) # Num(404)) => RaisedAsApiError(outcome)

C32_BootstrappedTwice ==
  /\ pc = "bootstrap-done"
  /\ conn.indexes = "all"
  /\ Len(request) = 5
  /\ \A i \in 1..Len(reply) : Threw(reply[i]) /\ StatusOf(reply[i]) = Num(409)
  /\ settled = Fulfils(Undef)
====
